---- MODULE Spec2Model ----
(***************************************************************************)
(* Rawl parimutuel escrow (packages/contracts/programs/rawl): the match    *)
(* lifecycle, the payout engine and the per-bet settlement operations.     *)
(*                                                                         *)
(* Every instruction is one atomic transaction: a handler that returns an  *)
(* error commits nothing, so a failing invocation is a stuttering step.    *)
(* The error an invocation returns is a state function (the ...Err         *)
(* operators), translated check by check from the handler; an action is    *)
(* the invocation that commits, guarded by its ...Err operator being "Ok". *)
(*                                                                         *)
(* Lamport amounts are u64 in the program; here they are W-bit (U64Bits),  *)
(* with the u128 intermediates unbounded, as they cannot overflow.         *)
(***************************************************************************)
EXTENDS Integers, FiniteSets, Sequences, TLC

VARIABLES
    config,     \* the PlatformConfig account
    pools,      \* match id -> MatchPool account
    bets,       \* match id -> bettor -> Bet account
    vault,      \* match id -> lamports of the vault PDA (0: no account)
    now,        \* Clock::get()?.unix_timestamp
    paid,       \* history: match id -> lamports paid out for winning bets
    last        \* history: the transfer out of a vault made by the last
                \* committed instruction (NoOp when it made none)

vars == <<config, pools, bets, vault, now, paid, last>>

(***************************************************************************)
(* Program constants (constants.rs and the literals of the handlers).      *)
(***************************************************************************)
MAX_FEE_BPS == 1000
CLAIM_WINDOW_SECONDS == 2592000
BPS_DENOMINATOR == 10000

(***************************************************************************)
(* Bounds of the model.                                                    *)
(***************************************************************************)
U64Bits == 10            \* width of the lamport / u64 fields
RentReserve == 1         \* rent.minimum_balance(0), paid into the vault
MaxSmallTicks == 1       \* one-second clock steps within a window
MaxWindows == 1          \* claim-window-sized clock steps

U32Bits == 2             \* width of the bet counters (u32 fields)

U64Max == 2 ^ U64Bits - 1
U32Max == 2 ^ U32Bits - 1

MatchIds == {"m1", "m2"}
Bettors == {"b1", "b2"}
Keys == {"admin", "admin2", "oracle", "oracle2", "treasury", "treasury2"} \cup Bettors
NoKey == "none"

\* the address of the vault PDA of a match (seeds [VAULT_SEED, match_id])
VaultKey(m) == "vault_" \o m

\* the vault balances after `amount` lamports are credited to the account
\* `key`: a vault PDA is an account like any other, so a transfer to a key
\* that is the address of a vault lands in that vault
CreditLamports(balances, key, amount) ==
    [x \in MatchIds |->
        IF key = VaultKey(x) THEN balances[x] + amount ELSE balances[x]]

(***************************************************************************)
(* Account records.  An account that does not exist holds its zero value   *)
(* and exists = FALSE (Anchor's init zero-fills the data of a new account).*)
(***************************************************************************)
NoConfig ==
    [exists |-> FALSE, authority |-> NoKey, oracle |-> NoKey, fee_bps |-> 0,
     treasury |-> NoKey, paused |-> FALSE, match_timeout |-> 0]

NoPool ==
    [exists |-> FALSE,
     side_a_total |-> 0, side_b_total |-> 0,
     side_a_bet_count |-> 0, side_b_bet_count |-> 0,
     winning_bet_count |-> 0, bet_count |-> 0,
     status |-> "Open", winner |-> "None",
     oracle |-> NoKey, creator |-> NoKey,
     created_at |-> 0, lock_timestamp |-> 0,
     resolve_timestamp |-> 0, cancel_timestamp |-> 0,
     min_bet |-> 0, betting_window |-> 0,
     fee_bps |-> 0, fees_withdrawn |-> FALSE]

NoBet == [exists |-> FALSE, side |-> "SideA", amount |-> 0, claimed |-> FALSE]

NoOp == [op |-> "none", m |-> NoKey, bettor |-> NoKey, amount |-> 0,
         to |-> NoKey, was_claimed |-> FALSE]

Committed(op, m, b, amount, to, wasClaimed) ==
    [op |-> op, m |-> m, bettor |-> b, amount |-> amount, to |-> to,
     was_claimed |-> wasClaimed]

(***************************************************************************)
(* Checked and saturating arithmetic of the handlers.                      *)
(***************************************************************************)
\* u32::saturating_sub / u64::saturating_sub: floors at zero.
SaturatingSub(a, b) == IF a >= b THEN a - b ELSE 0

\* i64::saturating_sub on timestamps: the plain difference (it saturates only
\* at the ends of i64, which no clock value of the model comes near).
Elapsed(t, since) == t - since

AsU64(x) == x % (U64Max + 1)

FitsU64(x) == x >= 0 /\ x <= U64Max

Min(a, b) == IF a <= b THEN a ELSE b

\* Option<T> arguments: <<>> is None, <<v>> is Some(v).
None == <<>>
Some(v) == <<v>>
IsSome(o) == o # <<>>
Unwrap(o) == o[1]

(***************************************************************************)
(* Payout engine.                                                          *)
(***************************************************************************)
\* Bet::is_winner
IsWinner(bet, winner) ==
    \/ (bet.side = "SideA" /\ winner = "SideA")
    \/ (bet.side = "SideB" /\ winner = "SideB")

\* total_pool = side_a_total + side_b_total, in u128
TotalPool(pool) == pool.side_a_total + pool.side_b_total

\* fee = total_pool * fee_bps / 10_000, in u128, truncating
FeeOf(total, fee_bps) == (total * fee_bps) \div BPS_DENOMINATOR

\* the net pool with no fee taken off
NetPool_NoFee(pool, fee_bps) == TotalPool(pool)

\* net_pool = total_pool - fee
NetPool(pool, fee_bps) == TotalPool(pool) - FeeOf(TotalPool(pool), fee_bps)

\* the winning side's total (0 for MatchWinner::None, where the handlers return)
WinningSideTotal(pool) ==
    IF pool.winner = "SideA" THEN pool.side_a_total
    ELSE IF pool.winner = "SideB" THEN pool.side_b_total
    ELSE 0

\* net_pool * bet.amount / winning_side_total in u128 (winning_side_total > 0)
PayoutWide(pool, bet, fee_bps) ==
    (NetPool(pool, fee_bps) * bet.amount) \div WinningSideTotal(pool)

\* claim_payout: the live platform rate, narrowed with `as u64`
ClaimAmount(cfg, pool, bet) == AsU64(PayoutWide(pool, bet, cfg.fee_bps))

\* sweep_unclaimed: the rate stored on the match, narrowed with u64::try_from
SweepAmountWide(pool, bet) == PayoutWide(pool, bet, pool.fee_bps)

\* the refund with no fee taken off
NoWinnersRefundWide_FullStake(pool, bet) == bet.amount

\* refund_no_winners: bet.amount * (10_000 - fee_bps) / 10_000, rate of the match
NoWinnersRefundWide(pool, bet) ==
    (bet.amount * (BPS_DENOMINATOR - pool.fee_bps)) \div BPS_DENOMINATOR

\* the fee at the platform's current rate
WithdrawFeeWide_LiveRate(pool) == FeeOf(TotalPool(pool), config.fee_bps)

\* withdraw_fees: total_pool * fee_bps / 10_000, rate of the match
WithdrawFeeWide(pool) == FeeOf(TotalPool(pool), pool.fee_bps)

\* The per-match fee rate.  The handlers read pool.fee_bps ("snapshotted
\* fee_bps"); the field's declaration and its assignment are not in the
\* sources.  It is the platform rate at resolution time.
FeeSnapshot(cfg) == cfg.fee_bps

(***************************************************************************)
(* Platform configuration: initialize, update_config, update_authority.    *)
(***************************************************************************)
InitializeErr(fee_bps) ==
    IF config.exists THEN "AccountInUse"
    ELSE IF fee_bps > MAX_FEE_BPS THEN "InvalidFeeBps"
    ELSE "Ok"

Initialize(authority, oracle, treasury, fee_bps, match_timeout) ==
    /\ InitializeErr(fee_bps) = "Ok"
    /\
        /\ config' = [exists |-> TRUE, authority |-> authority, oracle |-> oracle,
                      fee_bps |-> fee_bps, treasury |-> treasury,
                      paused |-> FALSE, match_timeout |-> match_timeout]
        /\ last' = NoOp
        /\ UNCHANGED <<pools, bets, vault, now, paid>>

\* update_config without the fee bound
UpdateConfigErr_NoFeeBound(caller, fee_bps, match_timeout) ==
    IF ~config.exists THEN "AccountNotInitialized"
    ELSE IF caller # config.authority THEN "Unauthorized"
    ELSE IF IsSome(match_timeout) /\ ~(Unwrap(match_timeout) > 0) THEN "InvalidTimeout"
    ELSE "Ok"

UpdateConfigErr(caller, fee_bps, match_timeout) ==
    IF ~config.exists THEN "AccountNotInitialized"
    ELSE IF caller # config.authority THEN "Unauthorized"
    ELSE IF IsSome(fee_bps) /\ Unwrap(fee_bps) > MAX_FEE_BPS THEN "InvalidFeeBps"
    ELSE IF IsSome(match_timeout) /\ ~(Unwrap(match_timeout) > 0) THEN "InvalidTimeout"
    ELSE "Ok"

UpdateConfig(caller, fee_bps, match_timeout, paused, oracle, treasury) ==
    /\ UpdateConfigErr(caller, fee_bps, match_timeout) = "Ok"
    /\
        /\ config' =
             [config EXCEPT
                !.fee_bps = IF IsSome(fee_bps) THEN Unwrap(fee_bps) ELSE @,
                !.match_timeout =
                    IF IsSome(match_timeout) THEN Unwrap(match_timeout) ELSE @,
                !.paused = IF IsSome(paused) THEN Unwrap(paused) ELSE @,
                !.oracle = IF IsSome(oracle) THEN Unwrap(oracle) ELSE @,
                !.treasury = IF IsSome(treasury) THEN Unwrap(treasury) ELSE @]
        /\ last' = NoOp
        /\ UNCHANGED <<pools, bets, vault, now, paid>>

UpdateAuthorityErr(current_authority) ==
    IF ~config.exists THEN "AccountNotInitialized"
    ELSE IF current_authority # config.authority THEN "Unauthorized"
    ELSE "Ok"

UpdateAuthority(current_authority, new_authority) ==
    /\ UpdateAuthorityErr(current_authority) = "Ok"
    /\
        /\ config' = [config EXCEPT !.authority = new_authority]
        /\ last' = NoOp
        /\ UNCHANGED <<pools, bets, vault, now, paid>>

(***************************************************************************)
(* Match lifecycle: create_match, place_bet, lock_match, resolve_match,    *)
(* cancel_match, timeout_match.                                            *)
(***************************************************************************)
\* create_match without `require!(!paused)`
CreateMatchErr_NoPauseCheck(m) ==
    IF ~config.exists THEN "AccountNotInitialized"
    ELSE IF pools[m].exists THEN "AccountInUse"
    ELSE IF vault[m] > 0 THEN "AccountInUse"
    ELSE "Ok"

CreateMatchErr(m) ==
    IF ~config.exists THEN "AccountNotInitialized"
    ELSE IF pools[m].exists THEN "AccountInUse"
    ELSE IF config.paused THEN "PlatformPaused"
    ELSE IF vault[m] > 0 THEN "AccountInUse"
    ELSE "Ok"

CreateMatch(creator, m) ==
    /\ CreateMatchErr(m) = "Ok"
    /\
        /\ vault' = [vault EXCEPT ![m] = RentReserve]
        /\ pools' = [pools EXCEPT ![m] =
             [NoPool EXCEPT
                !.exists = TRUE,
                !.status = "Open",
                !.winner = "None",
                !.oracle = config.oracle,
                !.creator = creator,
                !.created_at = now]]
        /\ paid' = [paid EXCEPT ![m] = 0]
        /\ last' = NoOp
        /\ UNCHANGED <<config, bets, now>>

\* side: u8 -> BetSide (place_bet) and winner: u8 -> MatchWinner (resolve_match)
SideOf(code) == IF code = 0 THEN "SideA" ELSE IF code = 1 THEN "SideB" ELSE "Invalid"

\* place_bet whose Bet account is `init_if_needed`
PlaceBetErr_InitIfNeeded(m, bettor, side, amount) ==
    LET pool == pools[m] IN
    IF ~pool.exists THEN "AccountNotInitialized"
    ELSE IF ~(amount > 0) THEN "ZeroBetAmount"
    ELSE IF pool.status # "Open" THEN "MatchNotOpen"
    ELSE IF pool.min_bet > 0 /\ ~(amount >= pool.min_bet) THEN "BetBelowMinimum"
    ELSE IF pool.betting_window > 0
            /\ ~(now <= pool.created_at + pool.betting_window)
         THEN "BettingWindowClosed"
    ELSE IF SideOf(side) = "Invalid" THEN "InvalidSide"
    ELSE IF ~FitsU64(vault[m] + amount) THEN "TransferFailed"
    ELSE "Ok"

\* place_bet with `amount > min_bet` and `now < deadline`
PlaceBetErr_StrictGates(m, bettor, side, amount) ==
    LET pool == pools[m] IN
    IF ~pool.exists THEN "AccountNotInitialized"
    ELSE IF bets[m][bettor].exists THEN "AccountInUse"
    ELSE IF ~(amount > 0) THEN "ZeroBetAmount"
    ELSE IF pool.status # "Open" THEN "MatchNotOpen"
    ELSE IF pool.min_bet > 0 /\ ~(amount > pool.min_bet) THEN "BetBelowMinimum"
    ELSE IF pool.betting_window > 0
            /\ ~(now < pool.created_at + pool.betting_window)
         THEN "BettingWindowClosed"
    ELSE IF SideOf(side) = "Invalid" THEN "InvalidSide"
    ELSE "Ok"

\* place_bet whose transfer into the vault cannot fail
PlaceBetErr_UnboundedVault(m, bettor, side, amount) ==
    LET pool == pools[m] IN
    IF ~pool.exists THEN "AccountNotInitialized"
    ELSE IF bets[m][bettor].exists THEN "AccountInUse"
    ELSE IF ~(amount > 0) THEN "ZeroBetAmount"
    ELSE IF pool.status # "Open" THEN "MatchNotOpen"
    ELSE IF pool.min_bet > 0 /\ ~(amount >= pool.min_bet) THEN "BetBelowMinimum"
    ELSE IF pool.betting_window > 0
            /\ ~(now <= pool.created_at + pool.betting_window)
         THEN "BettingWindowClosed"
    ELSE IF SideOf(side) = "Invalid" THEN "InvalidSide"
    ELSE IF SideOf(side) = "SideA" /\ ~FitsU64(pool.side_a_total + amount) THEN "Overflow"
    ELSE IF SideOf(side) = "SideA" /\ pool.side_a_bet_count + 1 > U32Max THEN "Overflow"
    ELSE IF SideOf(side) = "SideB" /\ ~FitsU64(pool.side_b_total + amount) THEN "Overflow"
    ELSE IF SideOf(side) = "SideB" /\ pool.side_b_bet_count + 1 > U32Max THEN "Overflow"
    ELSE IF pool.bet_count + 1 > U32Max THEN "Overflow"
    ELSE "Ok"

\* place_bet without the status check of place_bet.rs:51
PlaceBetErr_AnyStatus(m, bettor, side, amount) ==
    LET pool == pools[m] IN
    IF ~pool.exists THEN "AccountNotInitialized"
    ELSE IF bets[m][bettor].exists THEN "AccountInUse"
    ELSE IF ~(amount > 0) THEN "ZeroBetAmount"
    ELSE IF pool.min_bet > 0 /\ ~(amount >= pool.min_bet) THEN "BetBelowMinimum"
    ELSE IF pool.betting_window > 0
            /\ ~(now <= pool.created_at + pool.betting_window)
         THEN "BettingWindowClosed"
    ELSE IF SideOf(side) = "Invalid" THEN "InvalidSide"
    ELSE IF ~FitsU64(vault[m] + amount) THEN "TransferFailed"
    ELSE IF SideOf(side) = "SideA" /\ ~FitsU64(pool.side_a_total + amount) THEN "Overflow"
    ELSE IF SideOf(side) = "SideA" /\ pool.side_a_bet_count + 1 > U32Max THEN "Overflow"
    ELSE IF SideOf(side) = "SideB" /\ ~FitsU64(pool.side_b_total + amount) THEN "Overflow"
    ELSE IF SideOf(side) = "SideB" /\ pool.side_b_bet_count + 1 > U32Max THEN "Overflow"
    ELSE IF pool.bet_count + 1 > U32Max THEN "Overflow"
    ELSE "Ok"

PlaceBetErr(m, bettor, side, amount) ==
    LET pool == pools[m] IN
    IF ~pool.exists THEN "AccountNotInitialized"
    ELSE IF bets[m][bettor].exists THEN "AccountInUse"
    ELSE IF ~(amount > 0) THEN "ZeroBetAmount"
    ELSE IF pool.status # "Open" THEN "MatchNotOpen"
    ELSE IF pool.min_bet > 0 /\ ~(amount >= pool.min_bet) THEN "BetBelowMinimum"
    ELSE IF pool.betting_window > 0
            /\ ~(now <= pool.created_at + pool.betting_window)
         THEN "BettingWindowClosed"
    ELSE IF SideOf(side) = "Invalid" THEN "InvalidSide"
    ELSE IF ~FitsU64(vault[m] + amount) THEN "TransferFailed"
    ELSE IF SideOf(side) = "SideA" /\ ~FitsU64(pool.side_a_total + amount) THEN "Overflow"
    ELSE IF SideOf(side) = "SideA" /\ pool.side_a_bet_count + 1 > U32Max THEN "Overflow"
    ELSE IF SideOf(side) = "SideB" /\ ~FitsU64(pool.side_b_total + amount) THEN "Overflow"
    ELSE IF SideOf(side) = "SideB" /\ pool.side_b_bet_count + 1 > U32Max THEN "Overflow"
    ELSE IF pool.bet_count + 1 > U32Max THEN "Overflow"
    ELSE "Ok"

PlaceBet(m, bettor, side, amount) ==
    /\ PlaceBetErr(m, bettor, side, amount) = "Ok"
    /\
        /\ vault' = [vault EXCEPT ![m] = @ + amount]
        /\ pools' = [pools EXCEPT ![m] =
             IF SideOf(side) = "SideA"
             THEN [@ EXCEPT !.side_a_total = @ + amount,
                            !.side_a_bet_count = @ + 1,
                            !.bet_count = @ + 1]
             ELSE [@ EXCEPT !.side_b_total = @ + amount,
                            !.side_b_bet_count = @ + 1,
                            !.bet_count = @ + 1]]
        /\ bets' = [bets EXCEPT ![m][bettor] =
             [exists |-> TRUE, side |-> SideOf(side), amount |-> amount,
              claimed |-> FALSE]]
        /\ last' = NoOp
        /\ UNCHANGED <<config, now, paid>>

\* lock_match checking the signer against the platform's current oracle
LockMatchErr_LiveOracle(caller, m) ==
    LET pool == pools[m] IN
    IF ~pool.exists THEN "AccountNotInitialized"
    ELSE IF caller # config.oracle THEN "OracleUnauthorized"
    ELSE IF pool.status # "Open" THEN "MatchNotOpen"
    ELSE "Ok"

LockMatchErr(caller, m) ==
    LET pool == pools[m] IN
    IF ~pool.exists THEN "AccountNotInitialized"
    ELSE IF caller # pool.oracle THEN "OracleUnauthorized"
    ELSE IF pool.status # "Open" THEN "MatchNotOpen"
    ELSE "Ok"

LockMatch(caller, m) ==
    /\ LockMatchErr(caller, m) = "Ok"
    /\
        /\ pools' = [pools EXCEPT ![m] =
             [@ EXCEPT !.status = "Locked", !.lock_timestamp = now]]
        /\ last' = NoOp
        /\ UNCHANGED <<config, bets, vault, now, paid>>

ResolveMatchErr(caller, m, winner) ==
    LET pool == pools[m] IN
    IF ~pool.exists THEN "AccountNotInitialized"
    ELSE IF caller # pool.oracle THEN "OracleUnauthorized"
    ELSE IF pool.status # "Locked" THEN "MatchNotLocked"
    ELSE IF SideOf(winner) = "Invalid" THEN "InvalidSide"
    ELSE "Ok"

\* winning_bet_count, derived from the per-side counts
\* the count of the side that lost
WinningBetCountAtResolve_OtherSide(pool, match_winner) ==
    IF match_winner = "SideA" THEN pool.side_b_bet_count
    ELSE IF match_winner = "SideB" THEN pool.side_a_bet_count
    ELSE 0

WinningBetCountAtResolve(pool, match_winner) ==
    IF match_winner = "SideA" THEN pool.side_a_bet_count
    ELSE IF match_winner = "SideB" THEN pool.side_b_bet_count
    ELSE 0

ResolveMatch(caller, m, winner) ==
    /\ ResolveMatchErr(caller, m, winner) = "Ok"
    /\
        /\ pools' = [pools EXCEPT ![m] =
             [@ EXCEPT
                !.winner = SideOf(winner),
                !.status = "Resolved",
                !.resolve_timestamp = now,
                !.winning_bet_count =
                    WinningBetCountAtResolve(pools[m], SideOf(winner)),
                !.fee_bps = FeeSnapshot(config)]]
        /\ last' = NoOp
        /\ UNCHANGED <<config, bets, vault, now, paid>>

\* cancel_match without its status requirement
CancelMatchErr_AnyStatus(caller, m) ==
    IF ~pools[m].exists \/ ~config.exists THEN "AccountNotInitialized"
    ELSE IF caller # config.authority THEN "Unauthorized"
    ELSE "Ok"

CancelMatchErr(caller, m) ==
    LET pool == pools[m] IN
    IF ~pool.exists \/ ~config.exists THEN "AccountNotInitialized"
    ELSE IF caller # config.authority THEN "Unauthorized"
    ELSE IF ~(pool.status = "Open" \/ pool.status = "Locked") THEN "InvalidMatchStatus"
    ELSE "Ok"

CancelMatch(caller, m) ==
    /\ CancelMatchErr(caller, m) = "Ok"
    /\
        /\ pools' = [pools EXCEPT ![m] =
             [@ EXCEPT !.status = "Cancelled", !.cancel_timestamp = now]]
        /\ last' = NoOp
        /\ UNCHANGED <<config, bets, vault, now, paid>>

\* timeout_match with `elapsed >= match_timeout`
TimeoutMatchErr_AtTimeout(m) ==
    LET pool == pools[m] IN
    IF ~pool.exists \/ ~config.exists THEN "AccountNotInitialized"
    ELSE IF pool.status # "Locked" THEN "MatchNotLocked"
    ELSE IF ~(Elapsed(now, pool.lock_timestamp) >= config.match_timeout)
         THEN "TimeoutNotElapsed"
    ELSE "Ok"

TimeoutMatchErr(m) ==
    LET pool == pools[m] IN
    IF ~pool.exists \/ ~config.exists THEN "AccountNotInitialized"
    ELSE IF pool.status # "Locked" THEN "MatchNotLocked"
    ELSE IF ~(Elapsed(now, pool.lock_timestamp) > config.match_timeout)
         THEN "TimeoutNotElapsed"
    ELSE "Ok"

TimeoutMatch(m) ==
    /\ TimeoutMatchErr(m) = "Ok"
    /\
        /\ pools' = [pools EXCEPT ![m] =
             [@ EXCEPT !.status = "Cancelled", !.cancel_timestamp = now]]
        /\ last' = NoOp
        /\ UNCHANGED <<config, bets, vault, now, paid>>

(***************************************************************************)
(* Settlement: claim_payout, refund_no_winners, refund_bet, close_bet.     *)
(* The signer is the bettor; the Bet account is the one derived from the   *)
(* match id and the signer's key.  A `-=` on the vault's lamports that     *)
(* would go below zero aborts the transaction ("LamportUnderflow").        *)
(***************************************************************************)
\* claim_payout without the `!bet.claimed` requirement
ClaimPayoutErr_NoClaimedCheck(m, bettor) ==
    LET pool == pools[m]
        bet == bets[m][bettor]
    IN
    IF ~pool.exists \/ ~bet.exists \/ ~config.exists THEN "AccountNotInitialized"
    ELSE IF pool.status # "Resolved" THEN "MatchNotResolved"
    ELSE IF ~IsWinner(bet, pool.winner) THEN "BetOnLosingSide"
    ELSE IF pool.winner = "None" THEN "InvalidMatchStatus"
    ELSE IF WinningSideTotal(pool) = 0 THEN "Overflow"
    ELSE IF vault[m] < ClaimAmount(config, pool, bet) THEN "LamportUnderflow"
    ELSE "Ok"

ClaimPayoutErr(m, bettor) ==
    LET pool == pools[m]
        bet == bets[m][bettor]
    IN
    IF ~pool.exists \/ ~bet.exists \/ ~config.exists THEN "AccountNotInitialized"
    ELSE IF pool.status # "Resolved" THEN "MatchNotResolved"
    ELSE IF bet.claimed THEN "AlreadyClaimed"
    ELSE IF ~IsWinner(bet, pool.winner) THEN "BetOnLosingSide"
    ELSE IF pool.winner = "None" THEN "InvalidMatchStatus"
    ELSE IF WinningSideTotal(pool) = 0 THEN "Overflow"
    ELSE IF vault[m] < ClaimAmount(config, pool, bet) THEN "LamportUnderflow"
    ELSE "Ok"

ClaimPayout(m, bettor) ==
    /\ ClaimPayoutErr(m, bettor) = "Ok"
    /\
        LET payout == ClaimAmount(config, pools[m], bets[m][bettor]) IN
        /\ vault' = [vault EXCEPT ![m] = @ - payout]
        /\ bets' = [bets EXCEPT ![m][bettor].claimed = TRUE]
        /\ pools' = [pools EXCEPT ![m].winning_bet_count = SaturatingSub(@, 1)]
        /\ paid' = [paid EXCEPT ![m] = @ + payout]
        /\ last' = Committed("claim_payout", m, bettor, payout, bettor,
                             bets[m][bettor].claimed)
        /\ UNCHANGED <<config, now>>

RefundNoWinnersErr(m, bettor) ==
    LET pool == pools[m]
        bet == bets[m][bettor]
    IN
    IF ~pool.exists \/ ~bet.exists THEN "AccountNotInitialized"
    ELSE IF pool.status # "Resolved" THEN "MatchNotResolved"
    ELSE IF pool.winning_bet_count # 0 THEN "WinnersExist"
    ELSE IF pool.fee_bps > BPS_DENOMINATOR THEN "Overflow"
    ELSE IF ~FitsU64(NoWinnersRefundWide(pool, bet)) THEN "Overflow"
    ELSE IF ~(vault[m] >= NoWinnersRefundWide(pool, bet)) THEN "InsufficientVault"
    ELSE "Ok"

RefundNoWinners(m, bettor) ==
    /\ RefundNoWinnersErr(m, bettor) = "Ok"
    /\
        LET refund_amount == NoWinnersRefundWide(pools[m], bets[m][bettor]) IN
        /\ vault' = [vault EXCEPT ![m] = @ - refund_amount]
        /\ pools' = [pools EXCEPT ![m].bet_count = SaturatingSub(@, 1)]
        /\ bets' = [bets EXCEPT ![m][bettor] = NoBet]
        /\ last' = Committed("refund_no_winners", m, bettor, refund_amount, bettor,
                             bets[m][bettor].claimed)
        /\ UNCHANGED <<config, now, paid>>

RefundBetErr(m, bettor) ==
    LET pool == pools[m]
        bet == bets[m][bettor]
    IN
    IF ~pool.exists \/ ~bet.exists THEN "AccountNotInitialized"
    ELSE IF pool.status # "Cancelled" THEN "MatchNotCancelled"
    ELSE IF vault[m] < bet.amount THEN "LamportUnderflow"
    ELSE "Ok"

RefundBet(m, bettor) ==
    /\ RefundBetErr(m, bettor) = "Ok"
    /\
        /\ vault' = [vault EXCEPT ![m] = @ - bets[m][bettor].amount]
        /\ pools' = [pools EXCEPT ![m].bet_count = SaturatingSub(@, 1)]
        /\ bets' = [bets EXCEPT ![m][bettor] = NoBet]
        /\ last' = Committed("refund_bet", m, bettor, bets[m][bettor].amount, bettor,
                             bets[m][bettor].claimed)
        /\ UNCHANGED <<config, now, paid>>

\* close_bet for claimed Bets only
CloseBetErr_ClaimedOnly(m, bettor) ==
    LET pool == pools[m]
        bet == bets[m][bettor]
    IN
    IF ~pool.exists \/ ~bet.exists THEN "AccountNotInitialized"
    ELSE IF pool.status # "Resolved" THEN "MatchNotResolved"
    ELSE IF ~bet.claimed THEN "AlreadyClaimed"
    ELSE "Ok"

\* close_bet that also closes an unclaimed winning Bet
CloseBetErr_AnyBet(m, bettor) ==
    LET pool == pools[m]
        bet == bets[m][bettor]
    IN
    IF ~pool.exists \/ ~bet.exists THEN "AccountNotInitialized"
    ELSE IF pool.status # "Resolved" THEN "MatchNotResolved"
    ELSE "Ok"

CloseBetErr(m, bettor) ==
    LET pool == pools[m]
        bet == bets[m][bettor]
    IN
    IF ~pool.exists \/ ~bet.exists THEN "AccountNotInitialized"
    ELSE IF pool.status # "Resolved" THEN "MatchNotResolved"
    ELSE IF IsWinner(bet, pool.winner) /\ ~bet.claimed THEN "AlreadyClaimed"
    ELSE "Ok"

\* close_bet without the bet_count decrement
CloseBet_KeepCount(m, bettor) ==
    /\ CloseBetErr(m, bettor) = "Ok"
    /\
        /\ bets' = [bets EXCEPT ![m][bettor] = NoBet]
        /\ last' = Committed("close_bet", m, bettor, 0, NoKey,
                             bets[m][bettor].claimed)
        /\ UNCHANGED <<config, pools, vault, now, paid>>

CloseBet(m, bettor) ==
    /\ CloseBetErr(m, bettor) = "Ok"
    /\
        /\ pools' = [pools EXCEPT ![m].bet_count = SaturatingSub(@, 1)]
        /\ bets' = [bets EXCEPT ![m][bettor] = NoBet]
        /\ last' = Committed("close_bet", m, bettor, 0, NoKey,
                             bets[m][bettor].claimed)
        /\ UNCHANGED <<config, vault, now, paid>>

(***************************************************************************)
(* Abandonment sweeps and teardown: sweep_unclaimed, sweep_cancelled,      *)
(* withdraw_fees, close_match.  The Bet swept is any Bet of the match.     *)
(***************************************************************************)
\* sweep_unclaimed without the claim window
SweepUnclaimedErr_NoWindow(caller, m, bettor) ==
    LET pool == pools[m]
        bet == bets[m][bettor]
    IN
    IF ~pool.exists \/ ~bet.exists \/ ~config.exists THEN "AccountNotInitialized"
    ELSE IF caller # config.authority THEN "Unauthorized"
    ELSE IF pool.status # "Resolved" THEN "MatchNotResolved"
    ELSE IF bet.claimed THEN "AlreadyClaimed"
    ELSE IF ~IsWinner(bet, pool.winner) THEN "BetOnLosingSide"
    ELSE IF pool.winner = "None" THEN "InvalidMatchStatus"
    ELSE IF WinningSideTotal(pool) = 0 THEN "Overflow"
    ELSE IF ~FitsU64(SweepAmountWide(pool, bet)) THEN "Overflow"
    ELSE IF ~(vault[m] >= SweepAmountWide(pool, bet)) THEN "InsufficientVault"
    ELSE "Ok"

SweepUnclaimedErr(caller, m, bettor) ==
    LET pool == pools[m]
        bet == bets[m][bettor]
    IN
    IF ~pool.exists \/ ~bet.exists \/ ~config.exists THEN "AccountNotInitialized"
    ELSE IF caller # config.authority THEN "Unauthorized"
    ELSE IF pool.status # "Resolved" THEN "MatchNotResolved"
    ELSE IF bet.claimed THEN "AlreadyClaimed"
    ELSE IF ~IsWinner(bet, pool.winner) THEN "BetOnLosingSide"
    ELSE IF ~(Elapsed(now, pool.resolve_timestamp) >= CLAIM_WINDOW_SECONDS)
         THEN "ClaimWindowNotElapsed"
    ELSE IF pool.winner = "None" THEN "InvalidMatchStatus"
    ELSE IF WinningSideTotal(pool) = 0 THEN "Overflow"
    ELSE IF ~FitsU64(SweepAmountWide(pool, bet)) THEN "Overflow"
    ELSE IF ~(vault[m] >= SweepAmountWide(pool, bet)) THEN "InsufficientVault"
    ELSE "Ok"

SweepUnclaimed(caller, m, bettor) ==
    /\ SweepUnclaimedErr(caller, m, bettor) = "Ok"
    /\
        LET payout == SweepAmountWide(pools[m], bets[m][bettor]) IN
        /\ vault' = CreditLamports([vault EXCEPT ![m] = @ - payout],
                                   config.treasury, payout)
        /\ pools' = [pools EXCEPT ![m] =
             [@ EXCEPT !.winning_bet_count = SaturatingSub(@, 1),
                       !.bet_count = SaturatingSub(@, 1)]]
        /\ bets' = [bets EXCEPT ![m][bettor] = NoBet]
        /\ paid' = [paid EXCEPT ![m] = @ + payout]
        /\ last' = Committed("sweep_unclaimed", m, bettor, payout, config.treasury,
                             bets[m][bettor].claimed)
        /\ UNCHANGED <<config, now>>

\* sweep_cancelled without the claim window
SweepCancelledErr_NoWindow(m, bettor) ==
    LET pool == pools[m]
        bet == bets[m][bettor]
    IN
    IF ~pool.exists \/ ~bet.exists \/ ~config.exists THEN "AccountNotInitialized"
    ELSE IF pool.status # "Cancelled" THEN "MatchNotCancelled"
    ELSE "Ok"

SweepCancelledErr(m, bettor) ==
    LET pool == pools[m]
        bet == bets[m][bettor]
    IN
    IF ~pool.exists \/ ~bet.exists \/ ~config.exists THEN "AccountNotInitialized"
    ELSE IF pool.status # "Cancelled" THEN "MatchNotCancelled"
    ELSE IF ~(Elapsed(now, pool.cancel_timestamp) >= CLAIM_WINDOW_SECONDS)
         THEN "ClaimWindowNotElapsed"
    ELSE "Ok"

SweepCancelled(m, bettor) ==
    /\ SweepCancelledErr(m, bettor) = "Ok"
    /\
        LET transfer_amount == Min(bets[m][bettor].amount, vault[m]) IN
        /\ vault' = [vault EXCEPT ![m] = @ - transfer_amount]
        /\ pools' = [pools EXCEPT ![m].bet_count = SaturatingSub(@, 1)]
        /\ bets' = [bets EXCEPT ![m][bettor] = NoBet]
        /\ last' = Committed("sweep_cancelled", m, bettor, transfer_amount, bettor,
                             bets[m][bettor].claimed)
        /\ UNCHANGED <<config, now, paid>>

\* withdraw_fees without the `!pool.fees_withdrawn` requirement
WithdrawFeesErr_NoFlagCheck(caller, m) ==
    LET pool == pools[m] IN
    IF ~pool.exists \/ ~config.exists THEN "AccountNotInitialized"
    ELSE IF caller # config.authority THEN "Unauthorized"
    ELSE IF pool.status # "Resolved" THEN "MatchNotResolved"
    ELSE IF pool.winning_bet_count # 0 THEN "WinningBetCountNotZero"
    ELSE IF ~(Elapsed(now, pool.resolve_timestamp) >= CLAIM_WINDOW_SECONDS)
         THEN "ClaimWindowNotElapsed"
    ELSE IF ~FitsU64(WithdrawFeeWide(pool)) THEN "Overflow"
    ELSE "Ok"

\* withdraw_fees without the `winning_bet_count == 0` requirement
WithdrawFeesErr_WinnersPending(caller, m) ==
    LET pool == pools[m] IN
    IF ~pool.exists \/ ~config.exists THEN "AccountNotInitialized"
    ELSE IF caller # config.authority THEN "Unauthorized"
    ELSE IF pool.status # "Resolved" THEN "MatchNotResolved"
    ELSE IF pool.fees_withdrawn THEN "FeesAlreadyWithdrawn"
    ELSE IF ~(Elapsed(now, pool.resolve_timestamp) >= CLAIM_WINDOW_SECONDS)
         THEN "ClaimWindowNotElapsed"
    ELSE IF ~FitsU64(WithdrawFeeWide(pool)) THEN "Overflow"
    ELSE "Ok"

WithdrawFeesErr(caller, m) ==
    LET pool == pools[m] IN
    IF ~pool.exists \/ ~config.exists THEN "AccountNotInitialized"
    ELSE IF caller # config.authority THEN "Unauthorized"
    ELSE IF pool.status # "Resolved" THEN "MatchNotResolved"
    ELSE IF pool.fees_withdrawn THEN "FeesAlreadyWithdrawn"
    ELSE IF pool.winning_bet_count # 0 THEN "WinningBetCountNotZero"
    ELSE IF ~(Elapsed(now, pool.resolve_timestamp) >= CLAIM_WINDOW_SECONDS)
         THEN "ClaimWindowNotElapsed"
    ELSE IF ~FitsU64(WithdrawFeeWide(pool)) THEN "Overflow"
    ELSE "Ok"

WithdrawFees(caller, m) ==
    /\ WithdrawFeesErr(caller, m) = "Ok"
    /\
        LET transfer_amount == Min(WithdrawFeeWide(pools[m]), vault[m]) IN
        /\ vault' = CreditLamports([vault EXCEPT ![m] = @ - transfer_amount],
                                   config.treasury, transfer_amount)
        /\ pools' = [pools EXCEPT ![m].fees_withdrawn = TRUE]
        /\ last' = Committed("withdraw_fees", m, NoKey, transfer_amount,
                             config.treasury, FALSE)
        /\ UNCHANGED <<config, bets, now, paid>>

\* close_match without the `bet_count == 0` requirement
CloseMatchErr_AnyCount(caller, m) ==
    LET pool == pools[m] IN
    IF ~pool.exists \/ ~config.exists THEN "AccountNotInitialized"
    ELSE IF caller # config.authority THEN "Unauthorized"
    ELSE "Ok"

CloseMatchErr(caller, m) ==
    LET pool == pools[m] IN
    IF ~pool.exists \/ ~config.exists THEN "AccountNotInitialized"
    ELSE IF caller # config.authority THEN "Unauthorized"
    ELSE IF pool.bet_count # 0 THEN "BetCountNotZero"
    ELSE "Ok"

CloseMatch(caller, m) ==
    /\ CloseMatchErr(caller, m) = "Ok"
    /\
        /\ vault' = [vault EXCEPT ![m] = 0]
        /\ pools' = [pools EXCEPT ![m] = NoPool]
        /\ last' = Committed("close_match", m, NoKey, vault[m], config.authority, FALSE)
        /\ UNCHANGED <<config, bets, now, paid>>

(***************************************************************************)
(* The clock: it advances by a second, or by a claim window.               *)
(***************************************************************************)
TickSecond ==
    /\ now % CLAIM_WINDOW_SECONDS < MaxSmallTicks
    /\ now' = now + 1
    /\ last' = NoOp
    /\ UNCHANGED <<config, pools, bets, vault, paid>>

TickWindow ==
    /\ now \div CLAIM_WINDOW_SECONDS < MaxWindows
    /\ now' = now + CLAIM_WINDOW_SECONDS
    /\ last' = NoOp
    /\ UNCHANGED <<config, pools, bets, vault, paid>>

(***************************************************************************)
(* The specification: one match, two bettors, fixed identities.            *)
(***************************************************************************)
Matches == {"m1"}
Amounts == {3, 30}
SideCodes == {0, 1}
FeeRates == {0, MAX_FEE_BPS, MAX_FEE_BPS + 1}
Timeouts == {1}
Admin == "admin"
Oracle == "oracle"
Treasury == "treasury"

Init ==
    /\ config = NoConfig
    /\ pools = [m \in MatchIds |-> NoPool]
    /\ bets = [m \in MatchIds |-> [b \in Bettors |-> NoBet]]
    /\ vault = [m \in MatchIds |-> 0]
    /\ now = 0
    /\ paid = [m \in MatchIds |-> 0]
    /\ last = NoOp

Next ==
    \/ \E f \in FeeRates, t \in Timeouts : Initialize(Admin, Oracle, Treasury, f, t)
    \/ \E f \in FeeRates : UpdateConfig(Admin, Some(f), None, None, None, None)
    \/ UpdateAuthority(Admin, Admin)
    \/ \E m \in Matches : CreateMatch(Admin, m)
    \/ \E m \in Matches, b \in Bettors, s \in SideCodes, a \in Amounts :
         PlaceBet(m, b, s, a)
    \/ \E m \in Matches : LockMatch(Oracle, m)
    \/ \E m \in Matches, w \in SideCodes : ResolveMatch(Oracle, m, w)
    \/ \E m \in Matches : CancelMatch(Admin, m)
    \/ \E m \in Matches : TimeoutMatch(m)
    \/ \E m \in Matches, b \in Bettors : ClaimPayout(m, b)
    \/ \E m \in Matches, b \in Bettors : RefundNoWinners(m, b)
    \/ \E m \in Matches, b \in Bettors : RefundBet(m, b)
    \/ \E m \in Matches, b \in Bettors : CloseBet(m, b)
    \/ \E m \in Matches, b \in Bettors : SweepUnclaimed(Admin, m, b)
    \/ \E m \in Matches, b \in Bettors : SweepCancelled(m, b)
    \/ \E m \in Matches : WithdrawFees(Admin, m)
    \/ \E m \in Matches : CloseMatch(Admin, m)
    \/ TickSecond
    \/ TickWindow

Spec == Init /\ [][Next]_vars

(***************************************************************************)
(* The resolution path at the default fee rate, with stakes that are       *)
(* multiples of 100 (the documented examples, in units of 10^7 and 10^4    *)
(* lamports: 100 for 1_000_000_000, 500 and 300 for 5_000_000 and          *)
(* 3_000_000).                                                             *)
(***************************************************************************)
DEFAULT_FEE_BPS == 300

ExampleAmounts == {100, 300, 500}
ExampleFeeRates == {0, DEFAULT_FEE_BPS}

NextPayouts ==
    \/ \E t \in Timeouts : Initialize(Admin, Oracle, Treasury, DEFAULT_FEE_BPS, t)
    \/ \E f \in ExampleFeeRates : UpdateConfig(Admin, Some(f), None, None, None, None)
    \/ \E m \in Matches : CreateMatch(Admin, m)
    \/ \E m \in Matches, b \in Bettors, s \in SideCodes, a \in ExampleAmounts :
         PlaceBet(m, b, s, a)
    \/ \E m \in Matches : LockMatch(Oracle, m)
    \/ \E m \in Matches, w \in SideCodes : ResolveMatch(Oracle, m, w)
    \/ \E m \in Matches, b \in Bettors : ClaimPayout(m, b)
    \/ \E m \in Matches, b \in Bettors : RefundNoWinners(m, b)
    \/ \E m \in Matches, b \in Bettors : CloseBet(m, b)
    \/ \E m \in Matches, b \in Bettors : SweepUnclaimed(Admin, m, b)
    \/ \E m \in Matches : WithdrawFees(Admin, m)
    \/ \E m \in Matches : CloseMatch(Admin, m)
    \/ TickWindow

SpecPayouts == Init /\ [][NextPayouts]_vars

(***************************************************************************)
(* Matches with a stake gate and a betting deadline.  place_bet reads      *)
(* min_bet and betting_window from the MatchPool; create_match stores      *)
(* neither, so they are taken as per-match inputs of create_match: the     *)
(* handler below is create_match followed by the two assignments.          *)
(***************************************************************************)
CreateMatchConfigured(creator, m, min_bet, betting_window) ==
    /\ CreateMatchErr(m) = "Ok"
    /\
        /\ vault' = [vault EXCEPT ![m] = RentReserve]
        /\ pools' = [pools EXCEPT ![m] =
             [NoPool EXCEPT
                !.exists = TRUE,
                !.status = "Open",
                !.winner = "None",
                !.oracle = config.oracle,
                !.creator = creator,
                !.created_at = now,
                !.min_bet = min_bet,
                !.betting_window = betting_window]]
        /\ paid' = [paid EXCEPT ![m] = 0]
        /\ last' = NoOp
        /\ UNCHANGED <<config, bets, now>>

GateMinBets == {0, 3}
GateWindows == {0, CLAIM_WINDOW_SECONDS}
GateAmounts == {0, 2, 3}
GateSideCodes == {0, 1, 2}

NextGate ==
    \/ \E t \in Timeouts : Initialize(Admin, Oracle, Treasury, MAX_FEE_BPS, t)
    \/ \E m \in Matches, mb \in GateMinBets, bw \in GateWindows :
         CreateMatchConfigured(Admin, m, mb, bw)
    \/ \E m \in Matches, b \in Bettors, s \in GateSideCodes, a \in GateAmounts :
         PlaceBet(m, b, s, a)
    \/ \E m \in Matches : LockMatch(Oracle, m)
    \/ \E m \in Matches, w \in SideCodes : ResolveMatch(Oracle, m, w)
    \/ \E m \in Matches : CancelMatch(Admin, m)
    \/ \E m \in Matches, b \in Bettors : ClaimPayout(m, b)
    \/ \E m \in Matches, b \in Bettors : RefundBet(m, b)
    \/ \E m \in Matches, b \in Bettors : CloseBet(m, b)
    \/ \E m \in Matches : CloseMatch(Admin, m)
    \/ TickSecond
    \/ TickWindow

SpecGate == Init /\ [][NextGate]_vars

(***************************************************************************)
(* The administrative surface: the platform is paused and resumed, its     *)
(* oracle is replaced, and create_match, lock_match and resolve_match are  *)
(* signed by identities other than the authority and the oracle.           *)
(***************************************************************************)
AdminAmounts == {30}
Creators == {Admin, "b1"}
OracleSigners == {Oracle, "oracle2"}
WinnerCodes == {0, 1, 2}

NextAdmin ==
    \/ \E t \in Timeouts : Initialize(Admin, Oracle, Treasury, DEFAULT_FEE_BPS, t)
    \/ \E p \in BOOLEAN : UpdateConfig(Admin, None, None, Some(p), None, None)
    \/ \E o \in OracleSigners : UpdateConfig(Admin, None, None, None, Some(o), None)
    \/ \E c \in Creators, m \in Matches : CreateMatch(c, m)
    \/ \E m \in Matches, b \in Bettors, s \in SideCodes, a \in AdminAmounts :
         PlaceBet(m, b, s, a)
    \/ \E c \in OracleSigners, m \in Matches : LockMatch(c, m)
    \/ \E c \in OracleSigners, m \in Matches, w \in WinnerCodes :
         ResolveMatch(c, m, w)
    \/ \E m \in Matches : CancelMatch(Admin, m)
    \/ \E m \in Matches : TimeoutMatch(m)
    \/ \E m \in Matches, b \in Bettors : ClaimPayout(m, b)
    \/ \E m \in Matches, b \in Bettors : RefundNoWinners(m, b)
    \/ \E m \in Matches, b \in Bettors : RefundBet(m, b)
    \/ \E m \in Matches, b \in Bettors : CloseBet(m, b)
    \/ \E m \in Matches : WithdrawFees(Admin, m)
    \/ \E m \in Matches : CloseMatch(Admin, m)
    \/ TickSecond
    \/ TickWindow

SpecAdmin == Init /\ [][NextAdmin]_vars

(***************************************************************************)
(* Stakes at the edge of the lamport width: half the largest balance, the  *)
(* largest balance a vault can take on top of its rent reserve, and the    *)
(* largest u64.                                                            *)
(***************************************************************************)
WideAmounts == {U64Max \div 2, U64Max - RentReserve, U64Max}

NextWide ==
    \/ \E f \in FeeRates, t \in Timeouts : Initialize(Admin, Oracle, Treasury, f, t)
    \/ \E f \in FeeRates : UpdateConfig(Admin, Some(f), None, None, None, None)
    \/ \E m \in Matches : CreateMatch(Admin, m)
    \/ \E m \in Matches, b \in Bettors, s \in SideCodes, a \in WideAmounts :
         PlaceBet(m, b, s, a)
    \/ \E m \in Matches : LockMatch(Oracle, m)
    \/ \E m \in Matches, w \in SideCodes : ResolveMatch(Oracle, m, w)
    \/ \E m \in Matches, b \in Bettors : ClaimPayout(m, b)
    \/ \E m \in Matches, b \in Bettors : RefundNoWinners(m, b)
    \/ \E m \in Matches, b \in Bettors : CloseBet(m, b)
    \/ \E m \in Matches, b \in Bettors : SweepUnclaimed(Admin, m, b)
    \/ \E m \in Matches : WithdrawFees(Admin, m)
    \/ \E m \in Matches : CloseMatch(Admin, m)
    \/ TickWindow

SpecWide == Init /\ [][NextWide]_vars

(***************************************************************************)
(* Settlement under fairness: every bettor's settlement operations         *)
(* (claim_payout, close_bet, refund_bet, refund_no_winners, and the        *)
(* sweeps made on their Bet) are taken if they stay enabled.  The clock    *)
(* advances by claim windows only.                                         *)
(***************************************************************************)
Settle(m, b) ==
    \/ ClaimPayout(m, b)
    \/ RefundNoWinners(m, b)
    \/ RefundBet(m, b)
    \/ CloseBet(m, b)
    \/ SweepUnclaimed(Admin, m, b)
    \/ SweepCancelled(m, b)

NextSettle ==
    \/ \E f \in FeeRates, t \in Timeouts : Initialize(Admin, Oracle, Treasury, f, t)
    \/ \E f \in FeeRates : UpdateConfig(Admin, Some(f), None, None, None, None)
    \/ \E m \in Matches : CreateMatch(Admin, m)
    \/ \E m \in Matches, b \in Bettors, s \in SideCodes, a \in Amounts :
         PlaceBet(m, b, s, a)
    \/ \E m \in Matches : LockMatch(Oracle, m)
    \/ \E m \in Matches, w \in SideCodes : ResolveMatch(Oracle, m, w)
    \/ \E m \in Matches : CancelMatch(Admin, m)
    \/ \E m \in Matches : TimeoutMatch(m)
    \/ \E m \in Matches, b \in Bettors : Settle(m, b)
    \/ \E m \in Matches : WithdrawFees(Admin, m)
    \/ \E m \in Matches : CloseMatch(Admin, m)
    \/ TickWindow

SettleFairness == \A m \in Matches : \A b \in Bettors : WF_vars(Settle(m, b))

SpecSettle == Init /\ [][NextSettle]_vars /\ SettleFairness

(***************************************************************************)
(* Calls that fail.  Every call is a step: it commits, or it is rejected   *)
(* with an error, which `last` then records.  update_config and place_bet  *)
(* write before their last check (update_config stores fee_bps before it   *)
(* validates match_timeout, place_bet transfers the stake before its       *)
(* checked additions); what they have written when they return an error    *)
(* is discarded by the host with the failed transaction.  The other        *)
(* handlers validate before they write.                                    *)
(***************************************************************************)
Rejected(err, m, b) == Committed(err, m, b, 0, "rejected", FALSE)

\* the host keeps a transaction's writes only if the instruction returns Ok
HostCommit(err, before, after) == IF err = "Ok" THEN after ELSE before

Reject(err, m, b) ==
    /\ err # "Ok"
    /\ last' = Rejected(err, m, b)
    /\ UNCHANGED <<config, pools, bets, vault, now, paid>>

\* PlatformConfig as update_config has written it when it returns
UpdateConfigWritten(fee_bps, match_timeout, paused, oracle, treasury) ==
    LET c1 == IF IsSome(fee_bps) THEN [config EXCEPT !.fee_bps = Unwrap(fee_bps)]
              ELSE config
    IN
    IF IsSome(fee_bps) /\ Unwrap(fee_bps) > MAX_FEE_BPS THEN config
    ELSE IF IsSome(match_timeout) /\ ~(Unwrap(match_timeout) > 0) THEN c1
    ELSE [c1 EXCEPT
            !.match_timeout =
                IF IsSome(match_timeout) THEN Unwrap(match_timeout) ELSE @,
            !.paused = IF IsSome(paused) THEN Unwrap(paused) ELSE @,
            !.oracle = IF IsSome(oracle) THEN Unwrap(oracle) ELSE @,
            !.treasury = IF IsSome(treasury) THEN Unwrap(treasury) ELSE @]

\* update_config whose writes survive an error
UpdateConfigCall_KeepsWrites(caller, fee_bps, match_timeout, paused, oracle, treasury) ==
    \/ UpdateConfig(caller, fee_bps, match_timeout, paused, oracle, treasury)
    \/ LET err == UpdateConfigErr(caller, fee_bps, match_timeout) IN
       /\ err # "Ok"
       /\ config' = IF err \in {"InvalidFeeBps", "InvalidTimeout"}
                     THEN UpdateConfigWritten(fee_bps, match_timeout, paused,
                                              oracle, treasury)
                     ELSE config
       /\ last' = Rejected(err, NoKey, NoKey)
       /\ UNCHANGED <<pools, bets, vault, now, paid>>

UpdateConfigCall(caller, fee_bps, match_timeout, paused, oracle, treasury) ==
    \/ UpdateConfig(caller, fee_bps, match_timeout, paused, oracle, treasury)
    \/ LET err == UpdateConfigErr(caller, fee_bps, match_timeout) IN
       /\ err # "Ok"
       /\ config' = HostCommit(err, config,
                        UpdateConfigWritten(fee_bps, match_timeout, paused,
                                            oracle, treasury))
       /\ last' = Rejected(err, NoKey, NoKey)
       /\ UNCHANGED <<pools, bets, vault, now, paid>>

\* the vault balance as place_bet has left it when it returns: the stake is
\* transferred before the checked additions
PlaceBetVaultWritten(m, bettor, side, amount) ==
    IF PlaceBetErr(m, bettor, side, amount) \in {"Ok", "Overflow"}
    THEN vault[m] + amount
    ELSE vault[m]

PlaceBetCall(m, bettor, side, amount) ==
    \/ PlaceBet(m, bettor, side, amount)
    \/ LET err == PlaceBetErr(m, bettor, side, amount) IN
       /\ err # "Ok"
       /\ vault' = [vault EXCEPT ![m] =
              HostCommit(err, @, PlaceBetVaultWritten(m, bettor, side, amount))]
       /\ last' = Rejected(err, m, bettor)
       /\ UNCHANGED <<config, pools, bets, now, paid>>

ErrorAmounts == {0, 3}
ErrorFeeOptions == {None, Some(0), Some(MAX_FEE_BPS), Some(MAX_FEE_BPS + 1)}
ErrorTimeoutOptions == {None, Some(-1), Some(0), Some(1)}
ErrorSigners == {Admin, Oracle, "b1"}

NextErrors ==
    \/ \E f \in FeeRates, t \in Timeouts :
         \/ Initialize(Admin, Oracle, Treasury, f, t)
         \/ Reject(InitializeErr(f), NoKey, NoKey)
    \/ \E c \in ErrorSigners, f \in ErrorFeeOptions, t \in ErrorTimeoutOptions :
         UpdateConfigCall(c, f, t, None, None, None)
    \/ \E m \in Matches :
         \/ CreateMatch(Admin, m)
         \/ Reject(CreateMatchErr(m), m, NoKey)
    \/ \E m \in Matches, b \in Bettors, s \in GateSideCodes, a \in ErrorAmounts :
         PlaceBetCall(m, b, s, a)
    \/ \E c \in ErrorSigners, m \in Matches :
         \/ LockMatch(c, m)
         \/ Reject(LockMatchErr(c, m), m, NoKey)
    \/ \E c \in ErrorSigners, m \in Matches, w \in WinnerCodes :
         \/ ResolveMatch(c, m, w)
         \/ Reject(ResolveMatchErr(c, m, w), m, NoKey)
    \/ \E c \in ErrorSigners, m \in Matches :
         \/ CancelMatch(c, m)
         \/ Reject(CancelMatchErr(c, m), m, NoKey)
    \/ \E m \in Matches, b \in Bettors :
         \/ ClaimPayout(m, b)
         \/ Reject(ClaimPayoutErr(m, b), m, b)
    \/ \E m \in Matches, b \in Bettors :
         \/ RefundBet(m, b)
         \/ Reject(RefundBetErr(m, b), m, b)
    \/ \E m \in Matches, b \in Bettors :
         \/ CloseBet(m, b)
         \/ Reject(CloseBetErr(m, b), m, b)
    \/ \E c \in ErrorSigners, m \in Matches :
         \/ CloseMatch(c, m)
         \/ Reject(CloseMatchErr(c, m), m, NoKey)

\* A match on which bettors other than the two followed here have placed
\* U32Max bets of one lamport each on side A: the counters are at their limit.
CountersAtLimit ==
    /\ config = [exists |-> TRUE, authority |-> Admin, oracle |-> Oracle,
                 fee_bps |-> 0, treasury |-> Treasury,
                 paused |-> FALSE, match_timeout |-> 1]
    /\ pools = [m \in MatchIds |->
                 [NoPool EXCEPT
                    !.exists = TRUE, !.status = "Open", !.winner = "None",
                    !.oracle = Oracle, !.creator = Admin, !.created_at = 0,
                    !.side_a_total = U32Max, !.side_a_bet_count = U32Max,
                    !.bet_count = U32Max]]
    /\ bets = [m \in MatchIds |-> [b \in Bettors |-> NoBet]]
    /\ vault = [m \in MatchIds |-> RentReserve + U32Max]
    /\ now = 0
    /\ paid = [m \in MatchIds |-> 0]
    /\ last = NoOp

InitErrors == Init \/ CountersAtLimit

SpecErrors == InitErrors /\ [][NextErrors]_vars

(***************************************************************************)
(* The match timeout: initialize and update_config are offered timeouts    *)
(* that are negative, zero and positive (match_timeout is an i64).         *)
(***************************************************************************)
AnyTimeouts == {-1, 0, 1}

NextTimeouts ==
    \/ \E t \in AnyTimeouts : Initialize(Admin, Oracle, Treasury, DEFAULT_FEE_BPS, t)
    \/ \E t \in AnyTimeouts : UpdateConfig(Admin, None, Some(t), None, None, None)
    \/ \E m \in Matches : CreateMatch(Admin, m)
    \/ \E m \in Matches, b \in Bettors, s \in SideCodes, a \in AdminAmounts :
         PlaceBet(m, b, s, a)
    \/ \E m \in Matches : LockMatch(Oracle, m)
    \/ \E m \in Matches, w \in SideCodes : ResolveMatch(Oracle, m, w)
    \/ \E m \in Matches : TimeoutMatch(m)
    \/ \E m \in Matches, b \in Bettors : RefundBet(m, b)
    \/ \E m \in Matches : CloseMatch(Admin, m)
    \/ TickSecond

SpecTimeouts == Init /\ [][NextTimeouts]_vars

(***************************************************************************)
(* Two matches side by side.  Every per-match instruction derives its      *)
(* MatchPool, Bet and vault accounts from the match_id argument; the       *)
(* treasury is whatever key the authority stored (initialize.rs:37,        *)
(* update_config.rs:67-68), the address of a vault included.               *)
(***************************************************************************)
IsolationTreasuries == {Treasury, VaultKey("m2")}
IsolationBettors == {"b1"}

\* the instructions invoked with match identifier m
InvokedWith(m) ==
    \/ CreateMatch(Admin, m)
    \/ \E b \in IsolationBettors, s \in SideCodes, a \in AdminAmounts : PlaceBet(m, b, s, a)
    \/ LockMatch(Oracle, m)
    \/ \E w \in SideCodes : ResolveMatch(Oracle, m, w)
    \/ CancelMatch(Admin, m)
    \/ TimeoutMatch(m)
    \/ \E b \in IsolationBettors : ClaimPayout(m, b)
    \/ \E b \in IsolationBettors : RefundNoWinners(m, b)
    \/ \E b \in IsolationBettors : RefundBet(m, b)
    \/ \E b \in IsolationBettors : CloseBet(m, b)
    \/ \E b \in IsolationBettors : SweepUnclaimed(Admin, m, b)
    \/ \E b \in IsolationBettors : SweepCancelled(m, b)
    \/ WithdrawFees(Admin, m)
    \/ CloseMatch(Admin, m)

NextIsolation ==
    \/ Initialize(Admin, Oracle, Treasury, MAX_FEE_BPS, 1)
    \/ \E t \in IsolationTreasuries :
         UpdateConfig(Admin, None, None, None, None, Some(t))
    \/ \E m \in MatchIds : InvokedWith(m)
    \/ TickWindow

SpecIsolation == Init /\ [][NextIsolation]_vars

(***************************************************************************)
(* Derived quantities used by the properties.                              *)
(***************************************************************************)
RECURSIVE SumOver(_, _)
SumOver(S, f) ==
    IF S = {} THEN 0
    ELSE LET x == CHOOSE y \in S : TRUE IN f[x] + SumOver(S \ {x}, f)

OpenBets(m) == {b \in Bettors : bets[m][b].exists}

UnclaimedWinners(m) ==
    {b \in OpenBets(m) : ~bets[m][b].claimed /\ IsWinner(bets[m][b], pools[m].winner)}

\* the stakes of the open Bet records of a match
OpenStakes(m) == SumOver(OpenBets(m), [b \in Bettors |-> bets[m][b].amount])

\* the payouts of the open, unclaimed winning bets of a match at a fee rate
PayoutsDue(m, fee_bps) ==
    SumOver(UnclaimedWinners(m),
            [b \in Bettors |-> IF WinningSideTotal(pools[m]) > 0
                               THEN PayoutWide(pools[m], bets[m][b], fee_bps)
                               ELSE 0])

\* the vault's balance beyond the rent reserve create_match deposits
VaultBeyondRent(m) == vault[m] - RentReserve

(***************************************************************************)
(* C1  Vault solvency: for every existing match the vault balance beyond   *)
(* the rent reserve is at least the outstanding obligations: the stakes of *)
(* the open bets while Open, Locked or Cancelled; the payouts of the open, *)
(* unclaimed winning bets (at the rate claim_payout and at the rate        *)
(* sweep_unclaimed would use) while Resolved.                              *)
(***************************************************************************)
C1_VaultSolvency ==
    \A m \in MatchIds :
        pools[m].exists =>
            IF pools[m].status = "Resolved"
            THEN /\ VaultBeyondRent(m) >= PayoutsDue(m, config.fee_bps)
                 /\ VaultBeyondRent(m) >= PayoutsDue(m, pools[m].fee_bps)
            ELSE VaultBeyondRent(m) >= OpenStakes(m)

RefundOps == {"refund_bet", "refund_no_winners", "sweep_cancelled"}

(***************************************************************************)
(* C2  Exactly-once settlement: a Bet whose claimed flag claim_payout has  *)
(* set never afterwards receives a refund from the vault (refund_bet,      *)
(* refund_no_winners, sweep_cancelled), and claim_payout never pays a Bet  *)
(* that is already claimed.                                                *)
(***************************************************************************)
C2_ExactlyOnceSettlement ==
    (last.op \in RefundOps \cup {"claim_payout"} /\ last.amount > 0)
        => ~last.was_claimed

(***************************************************************************)
(* C3  refund_no_winners pays only on a Resolved match whose resolution    *)
(* produced no winning bet: the winning side's bet count was zero when     *)
(* resolve_match ran (the side counts are frozen from then on).            *)
(***************************************************************************)
C3_RefundOnlyWithoutWinners ==
    last.op = "refund_no_winners" =>
        /\ pools[last.m].status = "Resolved"
        /\ WinningBetCountAtResolve(pools[last.m], pools[last.m].winner) = 0

(***************************************************************************)
(* C4  For every resolved match with winning_side_total > 0, the amounts   *)
(* paid for winning bets by claim_payout and sweep_unclaimed plus the fee  *)
(* withdraw_fees computes are at most total_pool.                          *)
(***************************************************************************)
C4_PayoutsPlusFeeWithinPool ==
    \A m \in MatchIds :
        (pools[m].exists /\ pools[m].status = "Resolved"
            /\ WinningSideTotal(pools[m]) > 0)
        => paid[m] + WithdrawFeeWide(pools[m]) <= TotalPool(pools[m])

(***************************************************************************)
(* C5  Match status changes only along Open->Locked (lock_match),          *)
(* Locked->Resolved (resolve_match), Open/Locked->Cancelled (cancel_match) *)
(* and Locked->Cancelled (timeout_match); Resolved and Cancelled are       *)
(* terminal; winner and the lock/resolve/cancel timestamps change only     *)
(* with the transition that sets them; and each of the four handlers,      *)
(* invoked in any other status, returns its status error.                  *)
(***************************************************************************)
SamePool(m) == pools[m].exists /\ pools'[m].exists

StatusStep(m, from, to) ==
    SamePool(m) /\ pools[m].status = from /\ pools'[m].status = to

C5_StatusErrors ==
    \A m \in MatchIds :
        pools[m].exists =>
            /\ pools[m].status # "Open" =>
                 LockMatchErr(pools[m].oracle, m) = "MatchNotOpen"
            /\ pools[m].status # "Locked" =>
                 /\ \A w \in 0..2 :
                      ResolveMatchErr(pools[m].oracle, m, w) = "MatchNotLocked"
                 /\ TimeoutMatchErr(m) = "MatchNotLocked"
            /\ pools[m].status \notin {"Open", "Locked"} =>
                 CancelMatchErr(config.authority, m) = "InvalidMatchStatus"

C5_StatusTransitions ==
    \A m \in MatchIds :
        SamePool(m) =>
            /\ \/ pools'[m].status = pools[m].status
               \/ /\ StatusStep(m, "Open", "Locked")
                  /\ LockMatchErr(pools[m].oracle, m) = "Ok"
                  /\ pools'[m].lock_timestamp = now
               \/ /\ StatusStep(m, "Locked", "Resolved")
                  /\ \E w \in 0..1 : /\ ResolveMatchErr(pools[m].oracle, m, w) = "Ok"
                                     /\ pools'[m].winner = SideOf(w)
                  /\ pools'[m].resolve_timestamp = now
               \/ /\ StatusStep(m, "Open", "Cancelled")
                  /\ CancelMatchErr(config.authority, m) = "Ok"
                  /\ pools'[m].cancel_timestamp = now
               \/ /\ StatusStep(m, "Locked", "Cancelled")
                  /\ \/ CancelMatchErr(config.authority, m) = "Ok"
                     \/ TimeoutMatchErr(m) = "Ok"
                  /\ pools'[m].cancel_timestamp = now
            /\ ~StatusStep(m, "Open", "Locked") =>
                 pools'[m].lock_timestamp = pools[m].lock_timestamp
            /\ ~StatusStep(m, "Locked", "Resolved") =>
                 /\ pools'[m].resolve_timestamp = pools[m].resolve_timestamp
                 /\ pools'[m].winner = pools[m].winner
            /\ pools'[m].status = pools[m].status \/ pools[m].status = "Resolved" =>
                 pools'[m].cancel_timestamp = pools[m].cancel_timestamp

C5_StatusMachine == []C5_StatusErrors /\ [][C5_StatusTransitions]_vars

C5_Witness ==
    \E m \in MatchIds :
        /\ pools[m].exists /\ pools[m].status = "Cancelled"
        /\ pools[m].lock_timestamp > 0
        /\ pools[m].cancel_timestamp > pools[m].lock_timestamp
        /\ TimeoutMatchErr(m) = "MatchNotLocked"

(***************************************************************************)
(* C6  bet_count equals the number of open Bet records of the match, and   *)
(* no Bet record exists for a match whose MatchPool does not exist         *)
(* (close_match never destroys a MatchPool that still has a Bet).          *)
(***************************************************************************)
C6_BetCountIsOpenBets ==
    \A m \in MatchIds :
        IF pools[m].exists
        THEN pools[m].bet_count = Cardinality(OpenBets(m))
        ELSE OpenBets(m) = {}

C6_Witness ==
    \E m \in MatchIds :
        /\ pools[m].exists /\ pools[m].bet_count = 1
        /\ last.m = m
        /\ last.op \in {"close_bet", "refund_bet", "refund_no_winners",
                        "sweep_unclaimed", "sweep_cancelled"}

(***************************************************************************)
(* C7  winning_bet_count is 0 until resolution, is set by resolve_match to *)
(* the winning side's bet count, thereafter only decreases, by one per     *)
(* claim_payout or sweep_unclaimed, and in every Resolved state equals the *)
(* number of open, unclaimed Bet records on the winning side.              *)
(***************************************************************************)
C7_CountIsUnclaimedWinners ==
    \A m \in MatchIds :
        pools[m].exists =>
            IF pools[m].status = "Resolved"
            THEN pools[m].winning_bet_count = Cardinality(UnclaimedWinners(m))
            ELSE pools[m].winning_bet_count = 0

C7_CountSteps ==
    \A m \in MatchIds :
        SamePool(m) =>
            /\ StatusStep(m, "Locked", "Resolved") =>
                 pools'[m].winning_bet_count =
                     IF pools'[m].winner = "SideA"
                     THEN pools[m].side_a_bet_count
                     ELSE pools[m].side_b_bet_count
            /\ pools[m].status = "Resolved" =>
                 \/ pools'[m].winning_bet_count = pools[m].winning_bet_count
                 \/ /\ pools'[m].winning_bet_count = pools[m].winning_bet_count - 1
                    /\ last'.op \in {"claim_payout", "sweep_unclaimed"}
                    /\ last'.m = m

C7_WinningBetCount == []C7_CountIsUnclaimedWinners /\ [][C7_CountSteps]_vars

C7_Witness ==
    \E m \in MatchIds :
        /\ pools[m].exists /\ pools[m].status = "Resolved"
        /\ pools[m].winning_bet_count = 1
        /\ last.op = "claim_payout" /\ last.m = m

(***************************************************************************)
(* C8  claim_payout is exactly-once per Bet: on a Resolved match the call  *)
(* for an unclaimed winning bet succeeds, and the step that sets claimed   *)
(* debits the vault by the payout and credits it to the bettor; the call   *)
(* for a claimed bet returns AlreadyClaimed and the call for a losing bet  *)
(* returns BetOnLosingSide, both without any state change; claimed never   *)
(* goes back to false.                                                     *)
(***************************************************************************)
C8_ClaimOutcomes ==
    \A m \in MatchIds : \A b \in Bettors :
        (pools[m].exists /\ pools[m].status = "Resolved" /\ bets[m][b].exists) =>
            /\ bets[m][b].claimed => ClaimPayoutErr(m, b) = "AlreadyClaimed"
            /\ (~bets[m][b].claimed /\ IsWinner(bets[m][b], pools[m].winner)) =>
                 ClaimPayoutErr(m, b) = "Ok"
            /\ ~IsWinner(bets[m][b], pools[m].winner) =>
                 ClaimPayoutErr(m, b) = "BetOnLosingSide"

C8_ClaimStep ==
    \A m \in MatchIds : \A b \in Bettors :
        /\ (bets[m][b].exists /\ ~bets[m][b].claimed /\ bets'[m][b].claimed) =>
              /\ ClaimPayoutErr(m, b) = "Ok"
              /\ last' = Committed("claim_payout", m, b, vault[m] - vault'[m], b, FALSE)
              /\ vault'[m] <= vault[m]
              /\ bets'[m][b] = [bets[m][b] EXCEPT !.claimed = TRUE]
        /\ (bets[m][b].claimed /\ bets'[m][b].exists) => bets'[m][b].claimed
        /\ (last'.op = "claim_payout" /\ last'.m = m /\ last'.bettor = b
              /\ bets[m][b].exists /\ bets[m][b].claimed) => UNCHANGED vars

C8_ClaimExactlyOnce == []C8_ClaimOutcomes /\ [][C8_ClaimStep]_vars

C8_Witness ==
    \E m \in MatchIds : \E b \in Bettors :
        /\ bets[m][b].exists /\ bets[m][b].claimed
        /\ last = Committed("claim_payout", m, b, last.amount, b, FALSE)
        /\ last.amount > 0
        /\ ClaimPayoutErr(m, b) = "AlreadyClaimed"

(***************************************************************************)
(* C9  withdraw_fees succeeds at most once per match and only when the     *)
(* match is Resolved, fees_withdrawn is false, winning_bet_count is 0 and  *)
(* now - resolve_timestamp >= 30 days; the successful call transfers       *)
(* min(fee, vault balance) to the treasury, where                          *)
(* fee = floor(total_pool * fee_bps of the match / 10 000), and sets       *)
(* fees_withdrawn, which is never reset; a later call returns              *)
(* FeesAlreadyWithdrawn.                                                   *)
(***************************************************************************)
C9_WithdrawGuards ==
    \A m \in MatchIds :
        pools[m].exists /\ config.exists =>
            /\ WithdrawFeesErr(config.authority, m) = "Ok" =>
                 /\ pools[m].status = "Resolved"
                 /\ ~pools[m].fees_withdrawn
                 /\ pools[m].winning_bet_count = 0
                 /\ now - pools[m].resolve_timestamp >= CLAIM_WINDOW_SECONDS
            /\ pools[m].fees_withdrawn =>
                 /\ pools[m].status = "Resolved"
                 /\ WithdrawFeesErr(config.authority, m) = "FeesAlreadyWithdrawn"

C9_WithdrawStep ==
    \A m \in MatchIds :
        SamePool(m) =>
            /\ pools[m].fees_withdrawn => pools'[m].fees_withdrawn
            /\ (~pools[m].fees_withdrawn /\ pools'[m].fees_withdrawn) =>
                 LET fee == (TotalPool(pools[m]) * pools[m].fee_bps) \div 10000
                     amount == IF fee <= vault[m] THEN fee ELSE vault[m]
                 IN
                 /\ WithdrawFeesErr(config.authority, m) = "Ok"
                 /\ last' = Committed("withdraw_fees", m, NoKey, amount,
                                      config.treasury, FALSE)
                 /\ vault'[m] = vault[m] - amount
            /\ (last'.op = "withdraw_fees" /\ last'.m = m /\ pools[m].fees_withdrawn)
                 => UNCHANGED vars

C9_WithdrawFeesOnce == []C9_WithdrawGuards /\ [][C9_WithdrawStep]_vars

C9_Witness ==
    \E m \in MatchIds :
        /\ pools[m].exists /\ pools[m].fees_withdrawn
        /\ last.op = "withdraw_fees" /\ last.m = m
        /\ last.amount > 0 /\ last.amount = WithdrawFeeWide(pools[m])

(***************************************************************************)
(* C10  For a Resolved match the amounts transferred by refund_no_winners, *)
(* sweep_unclaimed and withdraw_fees are the same whether or not           *)
(* update_config changes the platform's fee_bps after the resolution.      *)
(* In the run without such an update every claim_payout pays at the rate   *)
(* the match was resolved with, so on a match none of whose Bet records    *)
(* has been destroyed the vault still holds the whole fee and              *)
(* withdraw_fees transfers floor(total_pool * fee_bps of the match /       *)
(* 10 000); the run with the update must transfer that same amount.        *)
(***************************************************************************)
C10_WithdrawIndependentOfLiveRate ==
    \A m \in MatchIds :
        ( /\ last.op = "withdraw_fees" /\ last.m = m
          /\ pools[m].exists
          /\ pools[m].bet_count =
                 pools[m].side_a_bet_count + pools[m].side_b_bet_count )
        => last.amount =
              ((pools[m].side_a_total + pools[m].side_b_total) * pools[m].fee_bps)
                  \div 10000

(***************************************************************************)
(* Steps, recognised by what they change.                                  *)
(***************************************************************************)
\* the step in which claim_payout sets the claimed flag of b's Bet
ClaimedBy(m, b) ==
    bets[m][b].exists /\ ~bets[m][b].claimed /\ bets'[m][b].claimed

\* the step in which the operation op destroys b's Bet
DestroyedBy(op, m, b) ==
    /\ bets[m][b].exists /\ ~bets'[m][b].exists
    /\ last'.op = op /\ last'.m = m /\ last'.bettor = b

\* the step in which b's Bet is created
PlacedBy(m, b) == ~bets[m][b].exists /\ bets'[m][b].exists

(***************************************************************************)
(* C11  claim_payout transfers, from the vault to the bettor, exactly      *)
(* floor((total_pool - floor(total_pool * fee_bps / 10000)) * amount /     *)
(* winning_side_total), fee_bps being the platform's rate at the claim;    *)
(* for the only bet of a match, of amount a, that is                       *)
(* a - floor(a * fee_bps / 10000) (fee_bps = 300 and a = 100 units give    *)
(* 97 units).                                                              *)
(***************************************************************************)
C11_ClaimStep ==
    \A m \in MatchIds : \A b \in Bettors :
        ClaimedBy(m, b) =>
            LET a == bets[m][b].amount
                total == pools[m].side_a_total + pools[m].side_b_total
                fee == (total * config.fee_bps) \div 10000
                side == IF bets[m][b].side = "SideA" THEN pools[m].side_a_total
                        ELSE pools[m].side_b_total
                payout == ((total - fee) * a) \div side
            IN
            /\ pools[m].status = "Resolved" /\ pools[m].winner = bets[m][b].side
            /\ last' = Committed("claim_payout", m, b, payout, b, FALSE)
            /\ vault'[m] = vault[m] - payout
            /\ (pools[m].side_a_bet_count + pools[m].side_b_bet_count = 1) =>
                  payout = a - (a * config.fee_bps) \div 10000

C11_SingleBetRoundTrip == [][C11_ClaimStep]_vars

C11_Witness ==
    \E m \in MatchIds : \E b \in Bettors :
        /\ pools[m].exists
        /\ pools[m].side_a_bet_count + pools[m].side_b_bet_count = 1
        /\ bets[m][b].exists /\ bets[m][b].claimed /\ bets[m][b].amount = 100
        /\ config.fee_bps = 300
        /\ last = Committed("claim_payout", m, b, 97, b, FALSE)
        /\ vault[m] = RentReserve + 3

(***************************************************************************)
(* C12  On a match resolved to a side with zero bets, refund_no_winners    *)
(* succeeds for every open Bet and transfers exactly                       *)
(* floor(stake * (10000 - fee_bps of the match) / 10000) from the vault to *)
(* its bettor, destroys the Bet and lowers bet_count by one (stakes of 500 *)
(* and 300 units at 300 bps yield 485 and 291 units).                      *)
(***************************************************************************)
NoWinningBets(pool) ==
    /\ pool.exists /\ pool.status = "Resolved"
    /\ (IF pool.winner = "SideA" THEN pool.side_a_bet_count
        ELSE pool.side_b_bet_count) = 0

C12_RefundAvailable ==
    \A m \in MatchIds : \A b \in Bettors :
        (NoWinningBets(pools[m]) /\ bets[m][b].exists) =>
            RefundNoWinnersErr(m, b) = "Ok"

C12_RefundStep ==
    \A m \in MatchIds : \A b \in Bettors :
        (NoWinningBets(pools[m]) /\ DestroyedBy("refund_no_winners", m, b)) =>
            LET refund == (bets[m][b].amount * (10000 - pools[m].fee_bps)) \div 10000
            IN
            /\ last' = Committed("refund_no_winners", m, b, refund, b, FALSE)
            /\ vault'[m] = vault[m] - refund
            /\ pools'[m] = [pools[m] EXCEPT !.bet_count = pools[m].bet_count - 1]

C12_NoWinnersRefund == []C12_RefundAvailable /\ [][C12_RefundStep]_vars

C12_Witness ==
    \E m \in MatchIds : \E b1 \in Bettors : \E b2 \in Bettors :
        /\ NoWinningBets(pools[m]) /\ pools[m].fee_bps = 300
        /\ pools[m].bet_count = 1
        /\ last = Committed("refund_no_winners", m, b1, 485, b1, FALSE)
        /\ bets[m][b2].exists /\ bets[m][b2].amount = 300
        /\ (bets[m][b2].amount * (10000 - pools[m].fee_bps)) \div 10000 = 291

(***************************************************************************)
(* C13  On a Locked match timeout_match returns TimeoutNotElapsed while    *)
(* now - lock_timestamp <= match_timeout and succeeds once it is greater;  *)
(* the step to Cancelled sets cancel_timestamp = now and nothing else.  On *)
(* a Cancelled match refund_bet succeeds for every open Bet and moves      *)
(* exactly the Bet's stake from the vault to its bettor, destroys the Bet  *)
(* and lowers bet_count by one; in any other status it returns             *)
(* MatchNotCancelled.                                                      *)
(***************************************************************************)
C13_Gates ==
    \A m \in MatchIds :
        (pools[m].exists /\ config.exists) =>
            /\ pools[m].status = "Locked" =>
                 TimeoutMatchErr(m) =
                     IF now - pools[m].lock_timestamp > config.match_timeout
                     THEN "Ok" ELSE "TimeoutNotElapsed"
            /\ \A b \in Bettors :
                 bets[m][b].exists =>
                     RefundBetErr(m, b) =
                         IF pools[m].status = "Cancelled"
                         THEN "Ok" ELSE "MatchNotCancelled"

C13_Steps ==
    \A m \in MatchIds :
        /\ StatusStep(m, "Locked", "Cancelled") =>
             /\ pools'[m] = [pools[m] EXCEPT !.status = "Cancelled",
                                             !.cancel_timestamp = now]
             /\ UNCHANGED <<bets, vault>>
        /\ \A b \in Bettors :
             DestroyedBy("refund_bet", m, b) =>
                 /\ pools[m].status = "Cancelled"
                 /\ last' = Committed("refund_bet", m, b, bets[m][b].amount, b, FALSE)
                 /\ vault'[m] = vault[m] - bets[m][b].amount
                 /\ pools'[m] = [pools[m] EXCEPT !.bet_count = pools[m].bet_count - 1]

C13_CancellationPath == []C13_Gates /\ [][C13_Steps]_vars

C13_Witness ==
    \E m \in MatchIds : \E b \in Bettors :
        /\ pools[m].exists /\ pools[m].status = "Cancelled"
        /\ pools[m].lock_timestamp > 0
        /\ pools[m].cancel_timestamp - pools[m].lock_timestamp > config.match_timeout
        /\ last = Committed("refund_bet", m, b, 30, b, FALSE)
        /\ pools[m].side_a_total + pools[m].side_b_total = 33
        /\ vault[m] = RentReserve + 3

(***************************************************************************)
(* C14  place_bet succeeds only when the match is Open, amount > 0, side   *)
(* is 0 or 1, amount >= min_bet when min_bet is set and                    *)
(* now <= created_at + betting_window when a window is set; on an Open     *)
(* match, for a bettor without a Bet and a valid side, amount = min_bet    *)
(* succeeds and amount = min_bet - 1 returns BetBelowMinimum, a bet at     *)
(* created_at + betting_window succeeds and any later one returns          *)
(* BettingWindowClosed; side totals, side counts, bet_count, the vault and *)
(* the Bet records change by a bet only in the step of a place_bet that    *)
(* succeeds.                                                               *)
(***************************************************************************)
C14_Deadline(pool) == pool.created_at + pool.betting_window

C14_Gates ==
    \A m \in MatchIds : \A b \in Bettors :
        \A s \in GateSideCodes : \A a \in GateAmounts \cup {pools[m].min_bet} :
            LET pool == pools[m]
                inTime == pool.betting_window > 0 => now <= C14_Deadline(pool)
            IN
            /\ PlaceBetErr(m, b, s, a) = "Ok" =>
                 /\ pool.exists /\ pool.status = "Open"
                 /\ a > 0 /\ s \in {0, 1}
                 /\ pool.min_bet > 0 => a >= pool.min_bet
                 /\ inTime
            /\ ( /\ pool.exists /\ pool.status = "Open" /\ ~bets[m][b].exists
                 /\ s \in {0, 1} /\ a > 0 ) =>
                 PlaceBetErr(m, b, s, a) =
                     IF pool.min_bet > 0 /\ a < pool.min_bet THEN "BetBelowMinimum"
                     ELSE IF ~inTime THEN "BettingWindowClosed"
                     ELSE "Ok"

C14_Steps ==
    \A m \in MatchIds :
        LET placed == {b \in Bettors : PlacedBy(m, b)} IN
        /\ \A b \in placed :
             /\ \E s \in {0, 1} :
                  /\ PlaceBetErr(m, b, s, bets'[m][b].amount) = "Ok"
                  /\ bets'[m][b].side = SideOf(s)
             /\ vault'[m] = vault[m] + bets'[m][b].amount
             /\ pools'[m].bet_count = pools[m].bet_count + 1
        /\ (SamePool(m) /\ placed = {}) =>
             /\ pools'[m].side_a_total = pools[m].side_a_total
             /\ pools'[m].side_b_total = pools[m].side_b_total
             /\ pools'[m].side_a_bet_count = pools[m].side_a_bet_count
             /\ pools'[m].side_b_bet_count = pools[m].side_b_bet_count
             /\ pools'[m].bet_count <= pools[m].bet_count
             /\ vault'[m] <= vault[m]

C15_OneBet ==
    \A m \in MatchIds :
        pools[m].exists =>
            /\ pools[m].side_a_bet_count + pools[m].side_b_bet_count
                   <= Cardinality(Bettors)
            /\ pools[m].status = "Open" =>
                 pools[m].side_a_bet_count + pools[m].side_b_bet_count
                     = Cardinality(OpenBets(m))
            /\ \A b \in Bettors : \A s \in SideCodes : \A a \in Amounts :
                 /\ bets[m][b].exists => PlaceBetErr(m, b, s, a) = "AccountInUse"
                 /\ (~bets[m][b].exists /\ pools[m].status # "Open") =>
                      PlaceBetErr(m, b, s, a) = "MatchNotOpen"

C15_Steps ==
    \A m \in MatchIds : \A b \in Bettors :
        /\ (bets[m][b].exists /\ bets'[m][b].exists) =>
             /\ bets'[m][b].amount = bets[m][b].amount
             /\ bets'[m][b].side = bets[m][b].side
        /\ (bets[m][b].exists /\ ~bets'[m][b].exists) =>
             /\ pools[m].status # "Open"
             /\ SamePool(m) /\ pools'[m].status = pools[m].status

C16_FeeBpsBounded ==
    /\ config.fee_bps <= MAX_FEE_BPS
    /\ \A f \in FeeRates :
         f > MAX_FEE_BPS =>
            /\ InitializeErr(f) # "Ok"
            /\ ~config.exists => InitializeErr(f) = "InvalidFeeBps"
            /\ config.exists =>
                 \A t \in {None, Some(0)} \cup {Some(x) : x \in Timeouts} :
                     UpdateConfigErr(config.authority, Some(f), t) = "InvalidFeeBps"

C16_Witness ==
    \E m \in MatchIds :
        /\ config.exists /\ config.fee_bps = MAX_FEE_BPS
        /\ pools[m].exists /\ pools[m].side_a_total > 0
        /\ UpdateConfigErr(config.authority, Some(MAX_FEE_BPS + 1), None)
               = "InvalidFeeBps"
(***************************************************************************)
(* C17  While the platform is paused create_match answers PlatformPaused   *)
(* and no MatchPool appears; a MatchPool that appears is Open with winner  *)
(* None, zero totals, counters and lock/resolve/cancel timestamps,         *)
(* created_at = now and the platform's current oracle.  The pause blocks   *)
(* nothing else: on a paused platform place_bet, lock_match and            *)
(* resolve_match still succeed and no settlement operation answers         *)
(* PlatformPaused.                                                         *)
(***************************************************************************)
C17_Paused ==
    (config.exists /\ config.paused) =>
        \A m \in MatchIds :
            /\ CreateMatchErr(m) # "Ok"
            /\ ~pools[m].exists => CreateMatchErr(m) = "PlatformPaused"
            /\ (pools[m].exists /\ pools[m].status = "Open") =>
                 /\ LockMatchErr(pools[m].oracle, m) = "Ok"
                 /\ \A b \in Bettors : \A s \in SideCodes : \A a \in AdminAmounts :
                      ~bets[m][b].exists => PlaceBetErr(m, b, s, a) = "Ok"
            /\ (pools[m].exists /\ pools[m].status = "Locked") =>
                 \A w \in SideCodes : ResolveMatchErr(pools[m].oracle, m, w) = "Ok"
            /\ \A b \in Bettors :
                 /\ ClaimPayoutErr(m, b) # "PlatformPaused"
                 /\ RefundBetErr(m, b) # "PlatformPaused"
                 /\ RefundNoWinnersErr(m, b) # "PlatformPaused"
                 /\ CloseBetErr(m, b) # "PlatformPaused"
                 /\ (pools[m].exists /\ pools[m].status = "Cancelled"
                       /\ bets[m][b].exists) => RefundBetErr(m, b) = "Ok"

C17_CreateStep ==
    \A m \in MatchIds :
        (~pools[m].exists /\ pools'[m].exists) =>
            /\ ~config.paused
            /\ pools'[m].status = "Open" /\ pools'[m].winner = "None"
            /\ pools'[m].side_a_total = 0 /\ pools'[m].side_b_total = 0
            /\ pools'[m].side_a_bet_count = 0 /\ pools'[m].side_b_bet_count = 0
            /\ pools'[m].winning_bet_count = 0 /\ pools'[m].bet_count = 0
            /\ pools'[m].lock_timestamp = 0 /\ pools'[m].resolve_timestamp = 0
            /\ pools'[m].cancel_timestamp = 0
            /\ pools'[m].created_at = now
            /\ pools'[m].oracle = config.oracle
            /\ UNCHANGED config

C17_PauseBlocksCreateOnly == []C17_Paused /\ [][C17_CreateStep]_vars

C17_Witness ==
    \E m \in MatchIds : \E b \in Bettors :
        /\ config.exists /\ config.paused
        /\ pools[m].exists /\ pools[m].created_at > 0
        /\ pools[m].oracle = "oracle2"
        /\ last = Committed("claim_payout", m, b, last.amount, b, FALSE)
        /\ last.amount > 0

(***************************************************************************)
(* C18  A MatchPool is created only by the platform authority.             *)
(***************************************************************************)
C18_CreateStep ==
    \A m \in MatchIds :
        (~pools[m].exists /\ pools'[m].exists) =>
            pools'[m].creator = config.authority

C18_OnlyAuthorityCreates == [][C18_CreateStep]_vars

(***************************************************************************)
(* C19  lock_match and resolve_match succeed only for the oracle stored    *)
(* on the match, which is the platform's oracle at create_match and is     *)
(* not changed afterwards, whatever update_config does to the platform's   *)
(* oracle; any other signer gets OracleUnauthorized; resolve_match with a  *)
(* winner code other than 0 or 1 answers InvalidSide on a Locked match,    *)
(* which stays Locked with winner None.                                    *)
(***************************************************************************)
C19_OracleGate ==
    \A m \in MatchIds :
        pools[m].exists =>
            /\ \A c \in Keys :
                 /\ LockMatchErr(c, m) = "Ok" => c = pools[m].oracle
                 /\ c # pools[m].oracle => LockMatchErr(c, m) = "OracleUnauthorized"
                 /\ \A w \in WinnerCodes :
                      /\ ResolveMatchErr(c, m, w) = "Ok" => c = pools[m].oracle
                      /\ c # pools[m].oracle =>
                           ResolveMatchErr(c, m, w) = "OracleUnauthorized"
            /\ pools[m].status \in {"Open", "Locked"} => pools[m].winner = "None"
            /\ pools[m].status = "Locked" =>
                 \A w \in WinnerCodes \ {0, 1} :
                     ResolveMatchErr(pools[m].oracle, m, w) = "InvalidSide"

C19_OracleSteps ==
    \A m \in MatchIds :
        /\ SamePool(m) => pools'[m].oracle = pools[m].oracle
        /\ (~pools[m].exists /\ pools'[m].exists) => pools'[m].oracle = config.oracle

C19_StoredOracle == []C19_OracleGate /\ [][C19_OracleSteps]_vars

C19_Witness ==
    \E m \in MatchIds :
        /\ pools[m].exists /\ pools[m].status = "Locked"
        /\ pools[m].oracle = Oracle /\ config.oracle = "oracle2"
        /\ ResolveMatchErr("oracle2", m, 0) = "OracleUnauthorized"
        /\ ResolveMatchErr(Oracle, m, 0) = "Ok"
        /\ ResolveMatchErr(Oracle, m, 2) = "InvalidSide"
(***************************************************************************)
(* C20  sweep_unclaimed succeeds only on a Resolved match, for an          *)
(* unclaimed Bet on the winning side, once now - resolve_timestamp has     *)
(* reached the claim window; short of that it answers MatchNotResolved,    *)
(* AlreadyClaimed, BetOnLosingSide or ClaimWindowNotElapsed.  A sweep      *)
(* that commits moves floor(net_pool * amount / winning_side_total), at    *)
(* the rate stored on the match, from the vault to the treasury, never to  *)
(* the bettor, takes one off winning_bet_count and bet_count and destroys  *)
(* the Bet.                                                                *)
(***************************************************************************)
C20_Guards ==
    \A m \in MatchIds : \A b \in Bettors :
        (pools[m].exists /\ bets[m][b].exists /\ config.exists) =>
            LET err == SweepUnclaimedErr(config.authority, m, b)
                won == bets[m][b].side = pools[m].winner
                due == now - pools[m].resolve_timestamp >= CLAIM_WINDOW_SECONDS
            IN
            /\ err = "Ok" =>
                 /\ pools[m].status = "Resolved"
                 /\ ~bets[m][b].claimed /\ won /\ due
            /\ pools[m].status # "Resolved" => err = "MatchNotResolved"
            /\ (pools[m].status = "Resolved" /\ bets[m][b].claimed) =>
                 err = "AlreadyClaimed"
            /\ (pools[m].status = "Resolved" /\ ~bets[m][b].claimed /\ ~won) =>
                 err = "BetOnLosingSide"
            /\ (pools[m].status = "Resolved" /\ ~bets[m][b].claimed /\ won /\ ~due) =>
                 err = "ClaimWindowNotElapsed"

C20_SweepStep ==
    \A m \in MatchIds : \A b \in Bettors :
        /\ (last'.op = "sweep_unclaimed" /\ last'.m = m /\ last'.bettor = b) =>
             (vars' = vars \/ DestroyedBy("sweep_unclaimed", m, b))
        /\ DestroyedBy("sweep_unclaimed", m, b) =>
             LET total == pools[m].side_a_total + pools[m].side_b_total
                 net_pool == total - ((total * pools[m].fee_bps) \div 10000)
                 winning_side_total ==
                     IF pools[m].winner = "SideA" THEN pools[m].side_a_total
                     ELSE pools[m].side_b_total
                 payout == (net_pool * bets[m][b].amount) \div winning_side_total
             IN
             /\ SweepUnclaimedErr(config.authority, m, b) = "Ok"
             /\ last' = Committed("sweep_unclaimed", m, b, payout,
                                  config.treasury, FALSE)
             /\ config.treasury # b
             /\ vault'[m] = vault[m] - payout
             /\ pools'[m] =
                  [pools[m] EXCEPT !.winning_bet_count = @ - 1, !.bet_count = @ - 1]
             /\ pools[m].winning_bet_count > 0 /\ pools[m].bet_count > 0
             /\ \A c \in Bettors \ {b} : bets'[m][c] = bets[m][c]
             /\ UNCHANGED config

C20_SweepUnclaimed == []C20_Guards /\ [][C20_SweepStep]_vars

C20_Witness ==
    \E m \in MatchIds : \E b \in Bettors :
        /\ last.op = "sweep_unclaimed" /\ last.m = m /\ last.bettor = b
        /\ last.amount > 0 /\ last.to = config.treasury
        /\ ~bets[m][b].exists
        /\ pools[m].side_a_total > 0 /\ pools[m].side_b_total > 0
        /\ pools[m].fee_bps = MAX_FEE_BPS
        /\ now - pools[m].resolve_timestamp >= CLAIM_WINDOW_SECONDS
(***************************************************************************)
(* C21  sweep_cancelled succeeds only on a Cancelled match once            *)
(* now - cancel_timestamp has reached the claim window, and answers        *)
(* ClaimWindowNotElapsed before that.  A sweep that commits returns the    *)
(* Bet's whole stake to the bettor recorded in the Bet, takes one off      *)
(* bet_count and destroys the Bet; the vault of a Cancelled match always   *)
(* holds at least the stake of each open Bet, so the cap at the vault      *)
(* balance never reduces the amount.                                       *)
(***************************************************************************)
C21_Guards ==
    \A m \in MatchIds : \A b \in Bettors :
        (pools[m].exists /\ bets[m][b].exists /\ config.exists) =>
            LET err == SweepCancelledErr(m, b)
                due == now - pools[m].cancel_timestamp >= CLAIM_WINDOW_SECONDS
            IN
            /\ err = "Ok" => (pools[m].status = "Cancelled" /\ due)
            /\ pools[m].status # "Cancelled" => err = "MatchNotCancelled"
            /\ (pools[m].status = "Cancelled" /\ ~due) => err = "ClaimWindowNotElapsed"
            /\ pools[m].status = "Cancelled" => vault[m] >= bets[m][b].amount

C21_SweepStep ==
    \A m \in MatchIds : \A b \in Bettors :
        /\ (last'.op = "sweep_cancelled" /\ last'.m = m /\ last'.bettor = b) =>
             (vars' = vars \/ DestroyedBy("sweep_cancelled", m, b))
        /\ DestroyedBy("sweep_cancelled", m, b) =>
             /\ SweepCancelledErr(m, b) = "Ok"
             /\ last' = Committed("sweep_cancelled", m, b, bets[m][b].amount, b, FALSE)
             /\ b # config.treasury
             /\ vault'[m] = vault[m] - bets[m][b].amount
             /\ pools[m].bet_count > 0
             /\ pools'[m] = [pools[m] EXCEPT !.bet_count = @ - 1]
             /\ \A c \in Bettors \ {b} : bets'[m][c] = bets[m][c]
             /\ UNCHANGED config

C21_SweepCancelled == []C21_Guards /\ [][C21_SweepStep]_vars

C21_Witness ==
    \E m \in MatchIds : \E b \in Bettors : \E c \in Bettors :
        /\ last = Committed("sweep_cancelled", m, b, 30, b, FALSE)
        /\ ~bets[m][b].exists
        /\ c # b /\ bets[m][c].exists /\ pools[m].bet_count = 1
        /\ pools[m].status = "Cancelled"
        /\ now - pools[m].cancel_timestamp >= CLAIM_WINDOW_SECONDS
(***************************************************************************)
(* C22  close_bet succeeds only on a Resolved match and, for a Bet on the  *)
(* winning side, only once that Bet is claimed; it destroys the Bet and    *)
(* takes one off bet_count, and leaves the vault, the side totals, the     *)
(* side counts and winning_bet_count as they were.                         *)
(***************************************************************************)
C22_Guards ==
    \A m \in MatchIds : \A b \in Bettors :
        (pools[m].exists /\ bets[m][b].exists) =>
            LET err == CloseBetErr(m, b)
                won == bets[m][b].side = pools[m].winner
            IN
            /\ err = "Ok" =>
                 /\ pools[m].status = "Resolved"
                 /\ won => bets[m][b].claimed
            /\ pools[m].status # "Resolved" => err = "MatchNotResolved"
            /\ (pools[m].status = "Resolved" /\ won /\ ~bets[m][b].claimed) =>
                 err # "Ok"
            /\ (pools[m].status = "Resolved" /\ (~won \/ bets[m][b].claimed)) =>
                 err = "Ok"

C22_CloseStep ==
    \A m \in MatchIds : \A b \in Bettors :
        /\ (last'.op = "close_bet" /\ last'.m = m /\ last'.bettor = b) =>
             (vars' = vars \/ DestroyedBy("close_bet", m, b))
        /\ DestroyedBy("close_bet", m, b) =>
             /\ CloseBetErr(m, b) = "Ok"
             /\ last'.amount = 0
             /\ vault' = vault
             /\ pools[m].bet_count > 0
             /\ pools'[m] = [pools[m] EXCEPT !.bet_count = @ - 1]
             /\ pools'[m].side_a_total = pools[m].side_a_total
             /\ pools'[m].side_b_total = pools[m].side_b_total
             /\ pools'[m].side_a_bet_count = pools[m].side_a_bet_count
             /\ pools'[m].side_b_bet_count = pools[m].side_b_bet_count
             /\ pools'[m].winning_bet_count = pools[m].winning_bet_count
             /\ \A c \in Bettors \ {b} : bets'[m][c] = bets[m][c]
             /\ UNCHANGED <<config, paid>>

C22_CloseBet == []C22_Guards /\ [][C22_CloseStep]_vars

C22_Witness ==
    \E m \in MatchIds : \E b \in Bettors : \E c \in Bettors :
        /\ last = Committed("close_bet", m, b, 0, NoKey, TRUE)
        /\ ~bets[m][b].exists
        /\ pools[m].status = "Resolved"
        /\ c # b /\ bets[m][c].exists /\ bets[m][c].side = pools[m].winner
        /\ ~bets[m][c].claimed
        /\ CloseBetErr(m, c) = "AlreadyClaimed"
        /\ pools[m].bet_count = 1 /\ pools[m].winning_bet_count = 1
(***************************************************************************)
(* C23  close_match is refused to everyone but the platform authority and  *)
(* answers BetCountNotZero while bet_count > 0.  With bet_count = 0 it     *)
(* moves the whole vault balance to the authority, leaving the vault at 0, *)
(* and destroys the MatchPool; while the MatchPool is gone there is no     *)
(* Bet of the match and every operation on it except create_match fails.   *)
(***************************************************************************)
C23_Guards ==
    \A m \in MatchIds :
        config.exists =>
            /\ pools[m].exists =>
                 /\ \A c \in Keys \ {config.authority} :
                      CloseMatchErr(c, m) = "Unauthorized"
                 /\ pools[m].bet_count > 0 =>
                      CloseMatchErr(config.authority, m) = "BetCountNotZero"
                 /\ pools[m].bet_count = 0 =>
                      CloseMatchErr(config.authority, m) = "Ok"
            /\ ~pools[m].exists =>
                 /\ vault[m] = 0
                 /\ \A c \in Keys :
                      /\ LockMatchErr(c, m) # "Ok"
                      /\ CancelMatchErr(c, m) # "Ok"
                      /\ WithdrawFeesErr(c, m) # "Ok"
                      /\ CloseMatchErr(c, m) # "Ok"
                      /\ \A w \in SideCodes : ResolveMatchErr(c, m, w) # "Ok"
                 /\ TimeoutMatchErr(m) # "Ok"
                 /\ \A b \in Bettors :
                      /\ ~bets[m][b].exists
                      /\ \A s \in SideCodes : \A a \in Amounts :
                           PlaceBetErr(m, b, s, a) # "Ok"
                      /\ ClaimPayoutErr(m, b) # "Ok"
                      /\ RefundNoWinnersErr(m, b) # "Ok"
                      /\ RefundBetErr(m, b) # "Ok"
                      /\ CloseBetErr(m, b) # "Ok"
                      /\ SweepCancelledErr(m, b) # "Ok"
                      /\ \A c \in Keys : SweepUnclaimedErr(c, m, b) # "Ok"

C23_CloseStep ==
    \A m \in MatchIds :
        /\ (last'.op = "close_match" /\ last'.m = m) =>
             (vars' = vars \/ (pools[m].exists /\ ~pools'[m].exists))
        /\ (pools[m].exists /\ ~pools'[m].exists) =>
             /\ CloseMatchErr(config.authority, m) = "Ok"
             /\ pools[m].bet_count = 0
             /\ last' = Committed("close_match", m, NoKey, vault[m],
                                  config.authority, FALSE)
             /\ vault'[m] = 0
             /\ UNCHANGED <<config, bets>>

C23_CloseMatch == []C23_Guards /\ [][C23_CloseStep]_vars

C23_Witness ==
    \E m \in MatchIds : \E b \in Bettors :
        /\ last.op = "close_match" /\ last.m = m /\ last.to = config.authority
        /\ last.amount > RentReserve
        /\ ~pools[m].exists /\ vault[m] = 0
        /\ PlaceBetErr(m, b, 0, 3) = "AccountNotInitialized"
        /\ CreateMatchErr(m) = "Ok"
(***************************************************************************)
(* C24  No stranded funds.  For every Bet of a Resolved or Cancelled match *)
(* one of claim_payout, close_bet, refund_bet, refund_no_winners,          *)
(* sweep_unclaimed and sweep_cancelled is enabled, and bet_count = 0 is    *)
(* exactly when close_match is open to the authority; under weak fairness  *)
(* of each bettor's settlement operations a match that is Resolved or      *)
(* Cancelled reaches bet_count = 0.                                        *)
(***************************************************************************)
CanSettle(m, b) ==
    \/ ClaimPayoutErr(m, b) = "Ok"
    \/ CloseBetErr(m, b) = "Ok"
    \/ RefundBetErr(m, b) = "Ok"
    \/ RefundNoWinnersErr(m, b) = "Ok"
    \/ SweepUnclaimedErr(config.authority, m, b) = "Ok"
    \/ SweepCancelledErr(m, b) = "Ok"

Settled(m) == pools[m].exists /\ pools[m].status \in {"Resolved", "Cancelled"}

C24_SettlementEnabled ==
    \A m \in MatchIds :
        Settled(m) =>
            /\ \A b \in Bettors : bets[m][b].exists => CanSettle(m, b)
            /\ pools[m].bet_count > 0 => \E b \in Bettors : bets[m][b].exists
            /\ pools[m].bet_count = 0 => CloseMatchErr(config.authority, m) = "Ok"

C24_Drains ==
    \A m \in MatchIds :
        Settled(m) ~> (Settled(m) /\ pools[m].bet_count = 0
                                  /\ CloseMatchErr(config.authority, m) = "Ok")

C24_NoStrandedFunds == []C24_SettlementEnabled /\ C24_Drains

C24_Witness ==
    \E m \in MatchIds : \E b \in Bettors :
        /\ Settled(m) /\ pools[m].status = "Resolved"
        /\ pools[m].bet_count = 0
        /\ pools[m].side_a_bet_count + pools[m].side_b_bet_count = 2
        /\ last.op = "close_bet" /\ last.m = m /\ last.bettor = b /\ last.was_claimed
        /\ CloseMatchErr(config.authority, m) = "Ok"
(***************************************************************************)
(* C25  In a match resolved to a side nobody bet on, the platform fee is   *)
(* not collected: a withdraw_fees on it moves nothing from the vault to    *)
(* the treasury.                                                           *)
(***************************************************************************)
C25_NoFeeWithoutWinners ==
    \A m \in MatchIds :
        (pools[m].exists /\ NoWinningBets(pools[m])
            /\ last.op = "withdraw_fees" /\ last.m = m) =>
                last.amount = 0
(***************************************************************************)
(* C26  No payout is transferred narrowed.  The exact payout of every      *)
(* winning Bet, floor(net_pool * amount / winning_side_total) at the live  *)
(* rate and at the rate of the match, fits the lamport width, so the       *)
(* `as u64` of claim_payout changes nothing and claim_payout transfers     *)
(* the exact value; sweep_unclaimed, refund_no_winners and withdraw_fees   *)
(* are enabled only when their exact amount fits.                          *)
(***************************************************************************)
C26_ExactPayout(pool, bet, fee_bps) ==
    LET total == pool.side_a_total + pool.side_b_total
        net_pool == total - ((total * fee_bps) \div 10000)
        winning_side_total ==
            IF pool.winner = "SideA" THEN pool.side_a_total ELSE pool.side_b_total
    IN (net_pool * bet.amount) \div winning_side_total

C26_Fits ==
    \A m \in MatchIds :
        (pools[m].exists /\ config.exists) =>
            /\ pools[m].side_a_total + pools[m].side_b_total <= U64Max
            /\ WithdrawFeesErr(config.authority, m) = "Ok" =>
                 (TotalPool(pools[m]) * pools[m].fee_bps) \div 10000 <= U64Max
            /\ \A b \in Bettors :
                 bets[m][b].exists =>
                    /\ (pools[m].status = "Resolved"
                          /\ bets[m][b].side = pools[m].winner) =>
                         /\ C26_ExactPayout(pools[m], bets[m][b], config.fee_bps)
                                <= U64Max
                         /\ ClaimAmount(config, pools[m], bets[m][b])
                                = C26_ExactPayout(pools[m], bets[m][b], config.fee_bps)
                    /\ SweepUnclaimedErr(config.authority, m, b) = "Ok" =>
                         C26_ExactPayout(pools[m], bets[m][b], pools[m].fee_bps)
                            <= U64Max
                    /\ RefundNoWinnersErr(m, b) = "Ok" =>
                         (bets[m][b].amount * (10000 - pools[m].fee_bps)) \div 10000
                            <= U64Max

C26_Transfers ==
    \A m \in MatchIds : \A b \in Bettors :
        /\ ClaimedBy(m, b) =>
             /\ last'.amount = C26_ExactPayout(pools[m], bets[m][b], config.fee_bps)
             /\ vault'[m] = vault[m] - last'.amount
        /\ DestroyedBy("sweep_unclaimed", m, b) =>
             /\ last'.amount = C26_ExactPayout(pools[m], bets[m][b], pools[m].fee_bps)
             /\ vault'[m] = vault[m] - last'.amount
        /\ DestroyedBy("refund_no_winners", m, b) =>
             /\ last'.amount =
                    (bets[m][b].amount * (10000 - pools[m].fee_bps)) \div 10000
             /\ vault'[m] = vault[m] - last'.amount
        /\ vault'[m] >= 0 /\ vault'[m] <= U64Max

C26_NoNarrowedPayout == []C26_Fits /\ [][C26_Transfers]_vars

C26_Witness ==
    \E m \in MatchIds : \E b \in Bettors :
        /\ last.op = "claim_payout" /\ last.m = m /\ last.bettor = b
        /\ bets[m][b].amount = U64Max \div 2
        /\ pools[m].side_a_total = U64Max \div 2
        /\ pools[m].side_b_total = U64Max \div 2
        /\ last.amount = 2 * (U64Max \div 2)
        /\ vault[m] = RentReserve
(***************************************************************************)
(* C27  claim_payout and refund_bet debit the vault without comparing the  *)
(* amount with its balance first.  Whenever claim_payout passes its checks *)
(* (Resolved, Bet unclaimed and on the winning side) the payout is at most *)
(* the vault balance, and whenever refund_bet passes its check (Cancelled) *)
(* the stake is at most the vault balance: neither aborts at the transfer  *)
(* and the vault balance never goes below zero.                            *)
(***************************************************************************)
C27_DebitsCovered ==
    \A m \in MatchIds :
        /\ vault[m] >= 0
        /\ (pools[m].exists /\ config.exists) =>
             \A b \in Bettors :
                 bets[m][b].exists =>
                    /\ (pools[m].status = "Resolved" /\ ~bets[m][b].claimed
                          /\ bets[m][b].side = pools[m].winner) =>
                         /\ ClaimAmount(config, pools[m], bets[m][b]) <= vault[m]
                         /\ ClaimPayoutErr(m, b) = "Ok"
                    /\ pools[m].status = "Cancelled" =>
                         /\ bets[m][b].amount <= vault[m]
                         /\ RefundBetErr(m, b) = "Ok"

C27_Witness ==
    \E m \in MatchIds : \E b \in Bettors :
        /\ pools[m].exists /\ pools[m].status = "Resolved"
        /\ pools[m].fee_bps = MAX_FEE_BPS /\ config.fee_bps = 0
        /\ last.op = "claim_payout" /\ last.m = m /\ last.bettor # b
        /\ bets[m][b].exists /\ ~bets[m][b].claimed
        /\ bets[m][b].side = pools[m].winner
        /\ ClaimAmount(config, pools[m], bets[m][b]) = vault[m] - RentReserve
(***************************************************************************)
(* C28  A call that returns an error leaves PlatformConfig, every          *)
(* MatchPool, every Bet and every vault balance as they were.  In          *)
(* particular update_config with a valid fee_bps and match_timeout <= 0    *)
(* answers InvalidTimeout and fee_bps keeps its value, and a place_bet     *)
(* that answers Overflow on a counter or side total leaves the stake with  *)
(* the bettor: the vault balance is unchanged.                             *)
(***************************************************************************)
C28_Cases ==
    /\ config.exists =>
         \A f \in {0, MAX_FEE_BPS} : \A t \in {-1, 0} :
             UpdateConfigErr(config.authority, Some(f), Some(t)) = "InvalidTimeout"
    /\ \A m \in MatchIds : \A b \in Bettors : \A s \in SideCodes :
         (pools[m].exists /\ pools[m].status = "Open" /\ ~bets[m][b].exists
            /\ pools[m].bet_count = U32Max) =>
                PlaceBetErr(m, b, s, 3) = "Overflow"

C28_ErrorSteps ==
    /\ last'.to = "rejected" => UNCHANGED <<config, pools, bets, vault, now, paid>>
    /\ last'.op = "InvalidTimeout" => config'.fee_bps = config.fee_bps
    /\ last'.op = "Overflow" => vault' = vault

C29_PositiveTimeout ==
    config.exists =>
        /\ config.match_timeout > 0
        /\ \A m \in MatchIds :
             (pools[m].exists /\ pools[m].status = "Locked"
                /\ now - pools[m].lock_timestamp = 0) =>
                    TimeoutMatchErr(m) # "Ok"
(***************************************************************************)
(* C30  In a match resolved to a side nobody bet on, the vault holds, on   *)
(* top of its rent reserve, at least the sum over the open Bets of         *)
(* floor(stake * (10000 - fee_bps) / 10000) at the rate of the match, in   *)
(* whatever order refund_no_winners by the bettors and withdraw_fees are   *)
(* taken; so refund_no_winners never answers InsufficientVault there.      *)
(***************************************************************************)
C30_RefundsDue(m) ==
    SumOver(OpenBets(m),
            [b \in Bettors |->
                (bets[m][b].amount * (10000 - pools[m].fee_bps)) \div 10000])

C30_RefundsCovered ==
    \A m \in MatchIds :
        NoWinningBets(pools[m]) =>
            /\ vault[m] >= RentReserve + C30_RefundsDue(m)
            /\ \A b \in OpenBets(m) : RefundNoWinnersErr(m, b) # "InsufficientVault"

C30_Witness ==
    \E m \in MatchIds : \E b \in Bettors : \E c \in Bettors :
        /\ NoWinningBets(pools[m]) /\ pools[m].fees_withdrawn
        /\ pools[m].fee_bps = MAX_FEE_BPS
        /\ last.op = "refund_no_winners" /\ last.m = m /\ last.bettor = b
        /\ ~bets[m][b].exists
        /\ c # b /\ bets[m][c].exists
        /\ C30_RefundsDue(m) > 0
        /\ RefundNoWinnersErr(m, c) = "Ok"
(***************************************************************************)
(* C31  Pool totals are frozen once betting ends.  Within the life of a    *)
(* MatchPool record, side_a_total, side_b_total, side_a_bet_count and      *)
(* side_b_bet_count change only in a place_bet that commits while the      *)
(* match is Open, which adds the stake and 1 to exactly one side; no step  *)
(* changes them once the match is Locked, Resolved or Cancelled.  While    *)
(* the match is Open or Locked the vault balance beyond the rent reserve   *)
(* equals side_a_total + side_b_total, which equals the sum of the amounts *)
(* of the open Bet records.                                                *)
(***************************************************************************)
C31_Totals(pool) ==
    <<pool.side_a_total, pool.side_b_total,
      pool.side_a_bet_count, pool.side_b_bet_count>>

C31_PlacedBy(m, b) ==
    LET bet == bets'[m][b]
        code == IF bet.side = "SideA" THEN 0 ELSE 1
    IN
    /\ ~bets[m][b].exists /\ bet.exists
    /\ PlaceBetErr(m, b, code, bet.amount) = "Ok"
    /\ PlaceBet(m, b, code, bet.amount)
    /\ bet.amount > 0
    /\ C31_Totals(pools'[m]) =
         IF bet.side = "SideA"
         THEN <<pools[m].side_a_total + bet.amount, pools[m].side_b_total,
                pools[m].side_a_bet_count + 1, pools[m].side_b_bet_count>>
         ELSE <<pools[m].side_a_total, pools[m].side_b_total + bet.amount,
                pools[m].side_a_bet_count, pools[m].side_b_bet_count + 1>>

C31_TotalsStep ==
    \A m \in MatchIds :
        /\ (pools[m].exists /\ pools'[m].exists
              /\ C31_Totals(pools'[m]) # C31_Totals(pools[m])) =>
                /\ pools[m].status = "Open"
                /\ \E b \in Bettors : C31_PlacedBy(m, b)
        /\ (pools[m].exists /\ pools'[m].exists
              /\ pools[m].status \in {"Locked", "Resolved", "Cancelled"}) =>
                C31_Totals(pools'[m]) = C31_Totals(pools[m])
        /\ \A b \in Bettors :
              (pools[m].exists /\ ~bets[m][b].exists /\ bets'[m][b].exists) =>
                  C31_PlacedBy(m, b)

C31_Balanced ==
    \A m \in MatchIds :
        (pools[m].exists /\ pools[m].status \in {"Open", "Locked"}) =>
            /\ VaultBeyondRent(m) = pools[m].side_a_total + pools[m].side_b_total
            /\ pools[m].side_a_total + pools[m].side_b_total = OpenStakes(m)

C32_MatchState(m) == <<pools[m], bets[m], vault[m]>>

C32_IsolatedStep ==
    \A m \in MatchIds :
        InvokedWith(m) =>
            \A other \in MatchIds \ {m} :
                pools[other].exists =>
                    C32_MatchState(other)' = C32_MatchState(other)

C32_MatchIsolation == [][C32_IsolatedStep]_vars
====
